---- MODULE Spec2Model ----
\* Kernel module inventory: the loaded-module parser, the builtin-module
\* reconciliation and the on-disk scan of list_kernel_modules.py and of the
\* kernel_modules package, modelled from the Python source.
\*
\* Text is modelled as a sequence of one-character strings, so that strip,
\* split, startswith, endswith, replace and int() are computed the way Python
\* computes them.
EXTENDS Integers, Sequences, FiniteSets, TLC

VARIABLES
    host,              \* the files and tools the program reads (never written)
    pc,                \* position of the run
    loadable_modules,  \* main: result of parse_proc_modules()
    builtin_modules,   \* main: result of get_all_builtin_modules()
    unloaded_modules,  \* result of get_unloaded_modules(loadable_modules)
    exit_status,       \* [code, msg] once the process called sys.exit
    call,              \* a function called on its own: its name and arguments
    ret,               \* what that call returned
    args,              \* main: the filter and sort options of the command line
    all_modules        \* main: the combined list after filter and sort

vars == <<host, pc, loadable_modules, builtin_modules, unloaded_modules,
          exit_status, call, ret, args, all_modules>>

-----------------------------------------------------------------------------
\* Bounds of the model.

\* longest dependency field enumerated
MaxFieldLen == 4
\* most lines of /proc/modules enumerated
MaxLines == 2

-----------------------------------------------------------------------------
\* Python str methods.

Whitespace == {" ", "\t", "\n"}

StartsWith(s, p) == Len(s) >= Len(p) /\ SubSeq(s, 1, Len(p)) = p

EndsWith(s, p) == Len(s) >= Len(p) /\ SubSeq(s, Len(s) - Len(p) + 1, Len(s)) = p

RECURSIVE LStrip(_)
LStrip(s) == IF s # <<>> /\ Head(s) \in Whitespace THEN LStrip(Tail(s)) ELSE s

RECURSIVE RStrip(_)
RStrip(s) ==
    IF s # <<>> /\ s[Len(s)] \in Whitespace THEN RStrip(SubSeq(s, 1, Len(s) - 1)) ELSE s

Strip(s) == RStrip(LStrip(s))

\* s.split(c) for a one-character separator: empty pieces are kept.
RECURSIVE SplitOn(_, _)
SplitOn(s, c) ==
    IF \A i \in 1..Len(s) : s[i] # c
    THEN <<s>>
    ELSE LET i == CHOOSE k \in 1..Len(s) : s[k] = c /\ \A j \in 1..(k - 1) : s[j] # c
         IN  <<SubSeq(s, 1, i - 1)>> \o SplitOn(SubSeq(s, i + 1, Len(s)), c)

\* s.split(c, 1): at the first separator only.
SplitOnce(s, c) ==
    IF \A i \in 1..Len(s) : s[i] # c
    THEN <<s>>
    ELSE LET i == CHOOSE k \in 1..Len(s) : s[k] = c /\ \A j \in 1..(k - 1) : s[j] # c
         IN  <<SubSeq(s, 1, i - 1), SubSeq(s, i + 1, Len(s))>>

\* s.split(): runs of whitespace separate, no empty pieces.
RECURSIVE SplitWS(_)
SplitWS(s) ==
    LET t == LStrip(s)
    IN  IF t = <<>> THEN <<>>
        ELSE LET n == IF \A i \in 1..Len(t) : t[i] \notin Whitespace
                      THEN Len(t)
                      ELSE (CHOOSE k \in 1..Len(t) :
                               t[k] \in Whitespace /\ \A j \in 1..(k - 1) : t[j] \notin Whitespace) - 1
             IN  <<SubSeq(t, 1, n)>> \o SplitWS(SubSeq(t, n + 1, Len(t)))

\* s[i-1:j] for 1 <= i: Python cuts a slice at the end of the string.
Slice(s, i, j) == SubSeq(s, i, IF j > Len(s) THEN Len(s) ELSE j)

\* sub in s
Contains(s, sub) ==
    \E i \in 0..(Len(s) - Len(sub)) : SubSeq(s, i + 1, i + Len(sub)) = sub

\* s.replace(old, ""): every non-overlapping occurrence, left to right.
RECURSIVE Remove(_, _)
Remove(s, old) ==
    IF s = <<>> THEN <<>>
    ELSE IF StartsWith(s, old) THEN Remove(SubSeq(s, Len(old) + 1, Len(s)), old)
    ELSE <<Head(s)>> \o Remove(Tail(s), old)

-----------------------------------------------------------------------------
\* Python int(str) and str(int).

DigitChars == <<"0", "1", "2", "3", "4", "5", "6", "7", "8", "9">>

Digits == {DigitChars[i] : i \in 1..10}

DigitVal(c) == (CHOOSE i \in 1..10 : DigitChars[i] = c) - 1

\* The strings int() accepts: an optional sign, then digits, single
\* underscores allowed between digits. Anything else raises ValueError.
IsPyInt(s) ==
    LET t == Strip(s)
        b == IF t # <<>> /\ t[1] \in {"+", "-"} THEN Tail(t) ELSE t
    IN  /\ b # <<>>
        /\ b[1] \in Digits
        /\ b[Len(b)] \in Digits
        /\ \A i \in 1..Len(b) : b[i] \in Digits \cup {"_"}
        /\ \A i \in 1..(Len(b) - 1) : ~(b[i] = "_" /\ b[i + 1] = "_")

RECURSIVE DigitsValue(_, _)
DigitsValue(b, acc) ==
    IF b = <<>> THEN acc
    ELSE IF Head(b) = "_" THEN DigitsValue(Tail(b), acc)
    ELSE DigitsValue(Tail(b), 10 * acc + DigitVal(Head(b)))

PyInt(s) ==
    LET t == Strip(s)
    IN  IF t[1] = "-" THEN 0 - DigitsValue(Tail(t), 0)
        ELSE IF t[1] = "+" THEN DigitsValue(Tail(t), 0)
        ELSE DigitsValue(t, 0)

RECURSIVE NatToStr(_)
NatToStr(n) ==
    IF n < 10 THEN <<DigitChars[n + 1]>>
    ELSE NatToStr(n \div 10) \o <<DigitChars[(n % 10) + 1]>>

PyStr(n) == IF n < 0 THEN <<"-">> \o NatToStr(0 - n) ELSE NatToStr(n)

-----------------------------------------------------------------------------
\* The dependency field of a /proc/modules line.

\* A plausible slip: the bracketed status markers are kept.
ParseDependenciesKeepMarkers(deps_str) ==
    IF deps_str = <<"-">> THEN <<>>
    ELSE LET deps == SplitOn(deps_str, ",")
             kept == SelectSeq(deps, LAMBDA dep : Strip(dep) # <<>>)
         IN  [i \in 1..Len(kept) |-> Strip(kept[i])]

ParseDependencies(deps_str) ==
    IF deps_str = <<"-">> THEN <<>>
    ELSE LET deps == SplitOn(deps_str, ",")
             kept == SelectSeq(deps, LAMBDA dep :
                        Strip(dep) # <<>> /\ ~StartsWith(Strip(dep), <<"[">>))
         IN  [i \in 1..Len(kept) |-> Strip(kept[i])]

-----------------------------------------------------------------------------
\* Text constants.

s_ext4 == <<"e", "x", "t", "4">>
s_usb == <<"u", "s", "b">>
s_snd == <<"s", "n", "d">>
s_Live == <<"L", "i", "v", "e">>
s_Dead == <<"D", "e", "a", "d">>
s_dash == <<"-">>
s_addr == <<"0", "x", "0">>
s_ko == <<".", "k", "o">>
s_ko_zst == <<".", "k", "o", ".", "z", "s", "t">>

RECURSIVE Join(_, _)
Join(parts, sep) ==
    IF parts = <<>> THEN <<>>
    ELSE IF Len(parts) = 1 THEN parts[1]
    ELSE parts[1] \o sep \o Join(Tail(parts), sep)

\* One line of a text file as the kernel writes it: fields, one blank between
\* them, a newline at the end.
MkLine(fields) == Join(fields, <<" ">>) \o <<"\n">>

SeqsUpTo(S, n) == UNION {[1..k -> S] : k \in 0..n}

Lookup(f, k, default) == IF k \in DOMAIN f THEN f[k] ELSE default

-----------------------------------------------------------------------------
\* Enrichment of a loaded module: modinfo and the module binary.

\* get_module_file_path: subprocess.run(['modinfo', '-n', name], check=True).
\* CalledProcessError and FileNotFoundError are caught and give "", any other
\* exception of subprocess.run (PermissionError when modinfo is not
\* executable) is not caught.
get_module_file_path(h, module_name) ==
    IF h.modinfo_cmd = "PermissionError"
    THEN [raised |-> "PermissionError", value |-> <<>>]
    ELSE IF h.modinfo_cmd = "FileNotFoundError" \/ module_name \notin DOMAIN h.modinfo_n
    THEN [raised |-> "", value |-> <<>>]
    ELSE [raised |-> "", value |-> Strip(h.modinfo_n[module_name])]

\* extract_description_from_elf: every exception is caught and gives "".
extract_description_from_elf(h, file_path) == Lookup(h.elf_description, file_path, <<>>)

get_module_description(h, module_name) ==
    LET fp == get_module_file_path(h, module_name)
        elf == IF h.elf_tools THEN extract_description_from_elf(h, fp.value) ELSE <<>>
    IN  IF fp.raised # "" THEN fp
        ELSE IF fp.value = <<>> THEN [raised |-> "", value |-> <<>>]
        ELSE IF elf # <<>> THEN [raised |-> "", value |-> elf]
        ELSE [raised |-> "", value |-> Strip(Lookup(h.modinfo_F, module_name, <<>>))]

\* is_module_signed_from_file: "True", "False" or "None"; never raises.
is_module_signed_from_file(h, file_path) ==
    IF file_path = <<>> THEN "None"
    ELSE IF file_path \in DOMAIN h.file_signed THEN h.file_signed[file_path]
    ELSE IF EndsWith(file_path, s_ko_zst) THEN "None"
    ELSE "False"

-----------------------------------------------------------------------------
\* parse_proc_modules of list_kernel_modules.py.

KernelModule(name, size, ref_count, dependencies, status, address, module_type, file_path, description, signed) ==
    [type |-> "KernelModule", name |-> name, size |-> size, ref_count |-> ref_count,
     dependencies |-> dependencies, status |-> status, address |-> address,
     module_type |-> module_type, file_path |-> file_path,
     description |-> description, signed |-> signed]

\* A plausible slip: a line whose size or refcount is no integer is skipped.
ParseLineSkipMalformed(h, raw) ==
    LET line == Strip(raw)
        parts == SplitWS(line)
        fp == get_module_file_path(h, parts[1])
        ds == get_module_description(h, parts[1])
        flag == is_module_signed_from_file(h, fp.value)
    IN  IF line = <<>> THEN [kind |-> "skip"]
        ELSE IF Len(parts) < 6 THEN [kind |-> "skip"]
        ELSE IF ~IsPyInt(parts[2]) \/ ~IsPyInt(parts[3]) THEN [kind |-> "skip"]
        ELSE IF fp.raised # "" THEN [kind |-> "raise", raised |-> fp.raised]
        ELSE IF ds.raised # "" THEN [kind |-> "raise", raised |-> ds.raised]
        ELSE [kind |-> "module",
              module |-> KernelModule(parts[1], PyInt(parts[2]), PyInt(parts[3]),
                            ParseDependencies(parts[4]), parts[5], parts[6], "loadable",
                            fp.value, ds.value,
                            IF flag = "True" THEN "Yes"
                            ELSE IF flag = "False" THEN "No" ELSE "Unknown")]

\* The body of the loop over the lines of /proc/modules.
ParseLine(h, raw) ==
    LET line == Strip(raw)
        parts == SplitWS(line)
        fp == get_module_file_path(h, parts[1])
        ds == get_module_description(h, parts[1])
        flag == is_module_signed_from_file(h, fp.value)
    IN  IF line = <<>> THEN [kind |-> "skip"]
        ELSE IF Len(parts) < 6 THEN [kind |-> "skip"]
        ELSE IF ~IsPyInt(parts[2]) \/ ~IsPyInt(parts[3])
        THEN [kind |-> "raise", raised |-> "ValueError"]
        ELSE IF fp.raised # "" THEN [kind |-> "raise", raised |-> fp.raised]
        ELSE IF ds.raised # "" THEN [kind |-> "raise", raised |-> ds.raised]
        ELSE [kind |-> "module",
              module |-> KernelModule(parts[1], PyInt(parts[2]), PyInt(parts[3]),
                            ParseDependencies(parts[4]), parts[5], parts[6], "loadable",
                            fp.value, ds.value,
                            IF flag = "True" THEN "Yes"
                            ELSE IF flag = "False" THEN "No" ELSE "Unknown")]

\* The loop: the first exception ends it and the list built so far is lost.
RECURSIVE ParseFrom(_, _, _)
ParseFrom(h, i, modules) ==
    IF i > Len(h.proc_modules) THEN [raised |-> "", modules |-> modules]
    ELSE LET r == ParseLine(h, h.proc_modules[i])
         IN  IF r.kind = "skip" THEN ParseFrom(h, i + 1, modules)
             ELSE IF r.kind = "raise" THEN [raised |-> r.raised, modules |-> <<>>]
             ELSE ParseFrom(h, i + 1, Append(modules, r.module))

\* The try block: open() and the loop.
ParseBody(h) ==
    IF h.proc_open # "ok" THEN [raised |-> h.proc_open, modules |-> <<>>]
    ELSE ParseFrom(h, 1, <<>>)

\* The except clauses: every exception ends the process with status 1.
parse_proc_modules(h) ==
    LET r == ParseBody(h)
    IN  IF r.raised = "" THEN [exit |-> [code |-> 0, msg |-> ""], modules |-> r.modules]
        ELSE IF r.raised = "FileNotFoundError"
        THEN [exit |-> [code |-> 1, msg |-> "Error: /proc/modules not found"],
              modules |-> <<>>]
        ELSE IF r.raised = "PermissionError"
        THEN [exit |-> [code |-> 1, msg |-> "Error: Permission denied reading /proc/modules"],
              modules |-> <<>>]
        ELSE [exit |-> [code |-> 1, msg |-> "Error parsing /proc/modules"],
              modules |-> <<>>]

-----------------------------------------------------------------------------
\* ModuleParser.parse_proc_modules of kernel_modules/parsers.py, which builds
\* kernel_modules.models.KernelModule.

\* positional arguments ModuleParser.parse_proc_modules passes to KernelModule
PkgCallArgs == 9
\* parameters kernel_modules.models.KernelModule.__init__ takes after self
PkgInitParams == 8

PkgParseLine(h, raw) ==
    LET line == Strip(raw)
        parts == SplitWS(line)
        fp == get_module_file_path(h, parts[1])
        ds == get_module_description(h, parts[1])
    IN  IF line = <<>> THEN [kind |-> "skip"]
        ELSE IF Len(parts) < 6 THEN [kind |-> "skip"]
        ELSE IF ~IsPyInt(parts[2]) \/ ~IsPyInt(parts[3])
        THEN [kind |-> "raise", raised |-> "ValueError"]
        ELSE IF fp.raised # "" THEN [kind |-> "raise", raised |-> fp.raised]
        ELSE IF ds.raised # "" THEN [kind |-> "raise", raised |-> ds.raised]
        ELSE IF PkgCallArgs > PkgInitParams
        THEN [kind |-> "raise", raised |-> "TypeError"]
        ELSE [kind |-> "module",
              module |-> [type |-> "KernelModule", name |-> parts[1],
                          size |-> PyInt(parts[2]), ref_count |-> PyInt(parts[3]),
                          dependencies |-> ParseDependencies(parts[4]),
                          status |-> parts[5], address |-> parts[6],
                          module_type |-> "loadable", file_path |-> fp.value]]

RECURSIVE PkgParseFrom(_, _, _)
PkgParseFrom(h, i, modules) ==
    IF i > Len(h.proc_modules) THEN [raised |-> "", modules |-> modules]
    ELSE LET r == PkgParseLine(h, h.proc_modules[i])
         IN  IF r.kind = "skip" THEN PkgParseFrom(h, i + 1, modules)
             ELSE IF r.kind = "raise" THEN [raised |-> r.raised, modules |-> <<>>]
             ELSE PkgParseFrom(h, i + 1, Append(modules, r.module))

\* FileNotFoundError and PermissionError are raised again as themselves, every
\* other exception as a plain Exception.
ModuleParser_parse_proc_modules(h) ==
    LET r == IF h.proc_open # "ok" THEN [raised |-> h.proc_open, modules |-> <<>>]
             ELSE PkgParseFrom(h, 1, <<>>)
    IN  IF r.raised \in {"", "FileNotFoundError", "PermissionError"} THEN r
        ELSE [raised |-> "Exception", modules |-> <<>>]

-----------------------------------------------------------------------------
\* Characters: str.lower() and the order of code points.

UpperChars ==
    <<"A", "B", "C", "D", "E", "F", "G", "H", "I", "J", "K", "L", "M",
      "N", "O", "P", "Q", "R", "S", "T", "U", "V", "W", "X", "Y", "Z">>

LowerChars ==
    <<"a", "b", "c", "d", "e", "f", "g", "h", "i", "j", "k", "l", "m",
      "n", "o", "p", "q", "r", "s", "t", "u", "v", "w", "x", "y", "z">>

IsUpper(c) == \E i \in 1..26 : UpperChars[i] = c

LowerChar(c) == IF IsUpper(c) THEN LowerChars[CHOOSE i \in 1..26 : UpperChars[i] = c] ELSE c

Lower(s) == [i \in 1..Len(s) |-> LowerChar(s[i])]

\* os.path.basename: what follows the last "/".
RECURSIVE Basename(_)
Basename(path) ==
    IF \A i \in 1..Len(path) : path[i] # "/" THEN path
    ELSE Basename(Tail(path))

-----------------------------------------------------------------------------
\* The sources of builtin-module names.

\* get_loadable_module_names: the first field of every non-blank line of
\* /proc/modules; any exception gives what was collected, so a file that
\* cannot be opened gives the empty set.
get_loadable_module_names(h) ==
    IF h.proc_open # "ok" THEN {}
    ELSE {SplitWS(Strip(h.proc_modules[i]))[1] :
            i \in {k \in 1..Len(h.proc_modules) : Strip(h.proc_modules[k]) # <<>>}}

\* get_builtin_modules_from_modules_builtin: for every non-blank line of
\* modules.builtin, os.path.basename(line).replace('.ko', '').
get_builtin_modules_from_modules_builtin(h) ==
    IF ~h.modules_builtin.exists THEN {}
    ELSE {Remove(Basename(Strip(h.modules_builtin.lines[i])), s_ko) :
            i \in {k \in 1..Len(h.modules_builtin.lines) :
                      Strip(h.modules_builtin.lines[k]) # <<>>}}

s_CONFIG_ == <<"C", "O", "N", "F", "I", "G", "_">>
s__BUILTIN_y == <<"_", "B", "U", "I", "L", "T", "I", "N", "=", "y">>
s_BUILTIN == <<"B", "U", "I", "L", "T", "I", "N">>

\* re.search(r'CONFIG_([A-Z0-9_]+)_BUILTIN=y', line).group(1): the leftmost
\* match, its group as long as it can be; <<>> when nothing matches.
ConfigGroup(line) ==
    LET ok(i, j) ==
            /\ Slice(line, i, i + 6) = s_CONFIG_
            /\ i + 7 <= j
            /\ \A k \in (i + 7)..j : IsUpper(line[k]) \/ line[k] \in Digits \/ line[k] = "_"
            /\ Slice(line, j + 1, j + 10) = s__BUILTIN_y
        found == {i \in 1..Len(line) : \E j \in i..Len(line) : ok(i, j)}
        first == CHOOSE i \in found : \A k \in found : i <= k
        last == CHOOSE j \in first..Len(line) :
                    ok(first, j) /\ \A k \in first..Len(line) : ok(first, k) => k <= j
    IN  IF found = {} THEN <<>> ELSE SubSeq(line, first + 7, last)

\* get_builtin_modules_from_config over the lines of the kernel config files
\* that exist: match.group(1).lower().replace('_', '').
get_builtin_modules_from_config(h) ==
    {Remove(Lower(ConfigGroup(h.kernel_config[i])), <<"_">>) :
        i \in {k \in 1..Len(h.kernel_config) :
                  /\ Contains(h.kernel_config[k], <<"=", "y">>)
                  /\ Contains(h.kernel_config[k], s_CONFIG_)
                  /\ Contains(h.kernel_config[k], s_BUILTIN)
                  /\ ConfigGroup(h.kernel_config[k]) # <<>>}}

\* get_builtin_modules_from_kallsyms: always the empty set.
get_builtin_modules_from_kallsyms(h) == {}

BuiltinModule(name, description, version, author, license) ==
    [type |-> "BuiltinModule", name |-> name, description |-> description,
     version |-> version, author |-> author, license |-> license,
     module_type |-> "builtin"]

s_filename_colon == <<"f", "i", "l", "e", "n", "a", "m", "e", ":">>
s_builtin_sentinel == <<"(", "b", "u", "i", "l", "t", "i", "n", ")">>
s_description == <<"d", "e", "s", "c", "r", "i", "p", "t", "i", "o", "n">>
s_version == <<"v", "e", "r", "s", "i", "o", "n">>
s_author == <<"a", "u", "t", "h", "o", "r">>
s_license == <<"l", "i", "c", "e", "n", "s", "e">>

\* dict.get(key, '')
Get(d, key) == Lookup(d, key, <<>>)

\* One line of the output of modinfo -a. st = [current_module, module_info,
\* builtin_modules]; current_module <<>> stands for None.
ModinfoStep(st, line) ==
    LET filename == Strip(SplitOnce(line, ":")[2])
        kv == SplitOnce(line, ":")
    IN  IF StartsWith(line, s_filename_colon)
        THEN IF filename = s_builtin_sentinel
             THEN [current_module |-> <<>>,
                   module_info |-> <<>>,
                   builtin_modules |->
                       IF st.current_module # <<>>
                       THEN Append(st.builtin_modules,
                                BuiltinModule(st.current_module,
                                    Get(st.module_info, s_description),
                                    Get(st.module_info, s_version),
                                    Get(st.module_info, s_author),
                                    Get(st.module_info, s_license)))
                       ELSE st.builtin_modules]
             ELSE IF EndsWith(filename, s_ko)
             THEN [st EXCEPT !.current_module = <<>>, !.module_info = <<>>]
             ELSE [st EXCEPT !.current_module = Basename(filename)]
        ELSE IF st.current_module # <<>> /\ Contains(line, <<":">>)
        THEN [st EXCEPT !.module_info =
                 (Strip(kv[1]) :> Strip(kv[2])) @@ st.module_info]
        ELSE st

RECURSIVE ModinfoFold(_, _)
ModinfoFold(st, lines) ==
    IF lines = <<>> THEN st ELSE ModinfoFold(ModinfoStep(st, Head(lines)), Tail(lines))

\* get_builtin_modules_from_modinfo: modinfo -a; a failing command gives [].
get_builtin_modules_from_modinfo(h) ==
    IF h.modinfo_a.outcome # "ok" THEN <<>>
    ELSE ModinfoFold([current_module |-> <<>>, module_info |-> <<>>,
                      builtin_modules |-> <<>>],
                     SplitOn(h.modinfo_a.stdout, "\n")).builtin_modules

-----------------------------------------------------------------------------
\* The sources of builtin-module metadata (kernel_modules/parsers.py only).

\* One match of (\w+)\.(\w+)=([^\s]+) in modules.builtin.modinfo.
\* st = [current_module, module_info, module_metadata].
BuiltinModinfoStep(st, tok) ==
    LET flushed == IF st.current_module # <<>> /\ DOMAIN st.module_info # {}
                   THEN (st.current_module :> st.module_info) @@ st.module_metadata
                   ELSE st.module_metadata
    IN  IF tok.module # st.current_module
        THEN [current_module |-> tok.module,
              module_info |-> (tok.field :> tok.value),
              module_metadata |-> flushed]
        ELSE [st EXCEPT !.module_info = (tok.field :> tok.value) @@ st.module_info]

RECURSIVE BuiltinModinfoFold(_, _)
BuiltinModinfoFold(st, toks) ==
    IF toks = <<>> THEN st
    ELSE BuiltinModinfoFold(BuiltinModinfoStep(st, Head(toks)), Tail(toks))

\* _extract_from_modules_builtin_modinfo: {module -> {field -> value}}.
extract_from_modules_builtin_modinfo(h) ==
    IF ~h.builtin_modinfo.exists THEN <<>>
    ELSE LET st == BuiltinModinfoFold([current_module |-> <<>>, module_info |-> <<>>,
                                       module_metadata |-> <<>>],
                                      h.builtin_modinfo.tokens)
         IN  IF st.current_module # <<>> /\ DOMAIN st.module_info # {}
             THEN (st.current_module :> st.module_info) @@ st.module_metadata
             ELSE st.module_metadata

s_dot_c == <<".", "c">>

\* The .c files of the source tree, in the order os.walk meets them, whose
\* name contains the module name.
SourceFiles(h, module_name) ==
    SelectSeq(h.source_tree,
              LAMBDA f : EndsWith(f.name, s_dot_c) /\ Contains(f.name, module_name))

\* _extract_description_from_kernel_source: the first such file that has a
\* MODULE_DESCRIPTION, else "".
extract_description_from_kernel_source(h, module_name) ==
    LET found == SelectSeq(SourceFiles(h, module_name), LAMBDA f : f.description # <<>>)
    IN  IF found = <<>> THEN <<>> ELSE found[1].description

\* _extract_license_from_kernel_source: the first such file that has a
\* MODULE_LICENSE, else "".
extract_license_from_kernel_source(h, module_name) ==
    LET found == SelectSeq(SourceFiles(h, module_name), LAMBDA f : f.license # <<>>)
    IN  IF found = <<>> THEN <<>> ELSE found[1].license

s_module_license == <<"_", "_", "m", "o", "d", "u", "l", "e", "_", "l", "i", "c", "e", "n", "s", "e", "_">>
s_gpl == <<"g", "p", "l">>
s_mit == <<"m", "i", "t">>
s_bsd == <<"b", "s", "d">>
s_proprietary == <<"p", "r", "o", "p", "r", "i", "e", "t", "a", "r", "y">>

\* _get_license_from_symbol
get_license_from_symbol(symbol_name) ==
    IF Contains(Lower(symbol_name), s_gpl) THEN <<"G", "P", "L">>
    ELSE IF Contains(Lower(symbol_name), s_mit) THEN <<"M", "I", "T">>
    ELSE IF Contains(Lower(symbol_name), s_bsd) THEN <<"B", "S", "D">>
    ELSE IF Contains(Lower(symbol_name), s_proprietary)
    THEN <<"P", "r", "o", "p", "r", "i", "e", "t", "a", "r", "y">>
    ELSE <<>>

\* symbol_name.split('__module_license_')[0]
BeforeMarker(symbol_name) ==
    LET i == CHOOSE k \in 1..Len(symbol_name) :
                 /\ StartsWith(SubSeq(symbol_name, k, Len(symbol_name)), s_module_license)
                 /\ \A j \in 1..(k - 1) :
                       ~StartsWith(SubSeq(symbol_name, j, Len(symbol_name)), s_module_license)
    IN  SubSeq(symbol_name, 1, i - 1)

RECURSIVE KallsymsFold(_, _)
KallsymsFold(module_licenses, lines) ==
    IF lines = <<>> THEN module_licenses
    ELSE LET line == Head(lines)
             parts == SplitWS(line)
             hit == /\ Contains(line, s_module_license)
                    /\ Len(parts) >= 3
                    /\ Contains(parts[3], s_module_license)
                    /\ get_license_from_symbol(parts[3]) # <<>>
         IN  KallsymsFold(IF hit
                          THEN (BeforeMarker(parts[3]) :> get_license_from_symbol(parts[3]))
                                   @@ module_licenses
                          ELSE module_licenses,
                          Tail(lines))

\* _extract_license_from_kernel_binary: {module -> license} from /proc/kallsyms.
extract_license_from_kernel_binary(h) == KallsymsFold(<<>>, h.kallsyms)

-----------------------------------------------------------------------------
\* get_all_builtin_modules, of the script and of the package.

\* {module.name for module in modinfo_modules}
ModinfoNames(h) ==
    LET modinfo_modules == get_builtin_modules_from_modinfo(h)
    IN  {modinfo_modules[i].name : i \in 1..Len(modinfo_modules)}

\* A plausible slip: the loaded names are not taken out of the fallback names.
module_names_keep_loaded(h) ==
    LET modules_builtin == get_builtin_modules_from_modules_builtin(h)
    IN  IF modules_builtin # {} THEN modules_builtin
        ELSE get_builtin_modules_from_kallsyms(h)
                 \cup get_builtin_modules_from_config(h)
                 \cup ModinfoNames(h)

\* A plausible slip: the fallback names are added whatever modules.builtin gave.
module_names_always_fallback(h) ==
    get_builtin_modules_from_modules_builtin(h)
        \cup ((get_builtin_modules_from_kallsyms(h)
                 \cup get_builtin_modules_from_config(h)
                 \cup ModinfoNames(h))
              \ get_loadable_module_names(h))

\* The set module_names of the script's get_all_builtin_modules.
module_names(h) ==
    LET modules_builtin == get_builtin_modules_from_modules_builtin(h)
    IN  IF modules_builtin # {} THEN modules_builtin
        ELSE (get_builtin_modules_from_kallsyms(h)
                 \cup get_builtin_modules_from_config(h)
                 \cup ModinfoNames(h))
             \ get_loadable_module_names(h)

\* The set module_names of BuiltinModuleParser.get_all_builtin_modules.
pkg_module_names(h) ==
    LET modules_builtin == get_builtin_modules_from_modules_builtin(h)
    IN  IF modules_builtin # {} THEN modules_builtin
        ELSE (get_builtin_modules_from_config(h)
                 \cup ModinfoNames(h))
             \ get_loadable_module_names(h)

\* next((m for m in modinfo_modules if m.name == name), None); <<>> for None.
ExistingModule(modinfo_modules, name) ==
    LET found == SelectSeq(modinfo_modules, LAMBDA m : m.name = name)
    IN  IF found = <<>> THEN <<>> ELSE <<found[1]>>

\* The script's record for one name: the modinfo record, else defaults.
BuiltinRecord(h, name) ==
    LET existing == ExistingModule(get_builtin_modules_from_modinfo(h), name)
    IN  IF existing # <<>> THEN existing[1]
        ELSE BuiltinModule(name, <<>>, <<>>, <<>>, <<>>)

\* A plausible slip: modules.builtin.modinfo is consulted before the modinfo
\* record.
PkgBuiltinRecordMetadataFirst(h, name) ==
    LET existing == ExistingModule(get_builtin_modules_from_modinfo(h), name)
        modinfo_metadata == extract_from_modules_builtin_modinfo(h)
        metadata == modinfo_metadata[name]
    IN  IF name \in DOMAIN modinfo_metadata
        THEN BuiltinModule(name, Get(metadata, s_description), Get(metadata, s_version),
                           Get(metadata, s_author), Get(metadata, s_license))
        ELSE IF existing # <<>> THEN existing[1]
        ELSE BuiltinModule(name, <<>>, <<>>, <<>>, <<>>)

\* The package's record for one name: the modinfo record, else the entry of
\* modules.builtin.modinfo, else the source tree, its license filled from
\* /proc/kallsyms when the source tree gives none.
PkgBuiltinRecord(h, name) ==
    LET existing == ExistingModule(get_builtin_modules_from_modinfo(h), name)
        kernel_licenses == extract_license_from_kernel_binary(h)
        modinfo_metadata == extract_from_modules_builtin_modinfo(h)
        metadata == modinfo_metadata[name]
        description == extract_description_from_kernel_source(h, name)
        license == extract_license_from_kernel_source(h, name)
    IN  IF existing # <<>> THEN existing[1]
        ELSE IF name \in DOMAIN modinfo_metadata
        THEN BuiltinModule(name, Get(metadata, s_description), Get(metadata, s_version),
                           Get(metadata, s_author), Get(metadata, s_license))
        ELSE BuiltinModule(name, description, <<>>, <<>>,
                           IF license = <<>> /\ name \in DOMAIN kernel_licenses
                           THEN kernel_licenses[name] ELSE license)

\* The orders in which "for name in module_names" may meet the names of a set.
Orders(S) == {f \in [1..Cardinality(S) -> S] : \A a, b \in DOMAIN f : a # b => f[a] # f[b]}

\* get_all_builtin_modules of list_kernel_modules.py, the names met in `order`.
get_all_builtin_modules(h, order) == [i \in 1..Len(order) |-> BuiltinRecord(h, order[i])]

\* BuiltinModuleParser.get_all_builtin_modules, the names met in `order`.
pkg_get_all_builtin_modules(h, order) ==
    [i \in 1..Len(order) |-> PkgBuiltinRecord(h, order[i])]

-----------------------------------------------------------------------------
\* get_unloaded_modules: the scan of /lib/modules/<release>.

\* The characters of the fixtures in the order of their code points.
CodeOrder ==
    <<"\t", "\n", " ", "(", ")", "+", ",", "-", ".", "/">> \o DigitChars \o <<":", "=">>
        \o UpperChars \o <<"[", "]", "_">> \o LowerChars

Code(c) == CHOOSE i \in 1..Len(CodeOrder) : CodeOrder[i] = c

\* a < b for Python str
RECURSIVE StrLess(_, _)
StrLess(a, b) ==
    IF b = <<>> THEN FALSE
    ELSE IF a = <<>> THEN TRUE
    ELSE IF Head(a) # Head(b) THEN Code(Head(a)) < Code(Head(b))
    ELSE StrLess(Tail(a), Tail(b))

\* list.sort(key=lambda x: x['name']): stable, ascending.
RECURSIVE InsertByName(_, _)
InsertByName(sorted, x) ==
    IF sorted = <<>> THEN <<x>>
    ELSE IF StrLess(x.name, sorted[Len(sorted)].name)
    THEN Append(InsertByName(SubSeq(sorted, 1, Len(sorted) - 1), x), sorted[Len(sorted)])
    ELSE Append(sorted, x)

RECURSIVE SortByName(_)
SortByName(xs) ==
    IF xs = <<>> THEN <<>>
    ELSE InsertByName(SortByName(SubSeq(xs, 1, Len(xs) - 1)), xs[Len(xs)])

\* glob.glob(f'{modules_dir}/**/*' + suffix, recursive=True): the files whose
\* base name ends with the suffix and does not begin with a dot.
Glob(h, suffix) ==
    SelectSeq(h.modules_dir.files,
              LAMBDA f : EndsWith(Basename(f.path), suffix) /\ Head(Basename(f.path)) # ".")

\* A plausible slip: only ".ko" is cut.
ModuleNameOfFilePlainOnly(file_path) ==
    LET base == Basename(file_path)
    IN  IF EndsWith(base, s_ko) THEN SubSeq(base, 1, Len(base) - 3) ELSE base

\* The name of a module file: ".ko.zst" cut, else ".ko" cut.
ModuleNameOfFile(file_path) ==
    LET base == Basename(file_path)
    IN  IF EndsWith(base, s_ko_zst) THEN SubSeq(base, 1, Len(base) - 7)
        ELSE IF EndsWith(base, s_ko) THEN SubSeq(base, 1, Len(base) - 3)
        ELSE base

\* get_module_description_from_file of list_kernel_modules.py: it calls
\* extract_description_from_elf_file, a name the script does not define; the
\* NameError is caught by `except Exception`, which returns "".
get_module_description_from_file(h, file_path) == <<>>

\* HTMLFormatter._get_module_description_from_file: the description of the
\* .modinfo section; every exception gives "".
HTMLFormatter_get_module_description_from_file(h, file_path) ==
    Lookup(h.elf_description, file_path, <<>>)

\* A plausible slip: a file whose stat fails is left out.
ScanEntriesSkipUnstatable(h, loaded_names, formatter) ==
    LET found == Glob(h, s_ko) \o Glob(h, s_ko_zst)
        kept == SelectSeq(found, LAMBDA f : ModuleNameOfFile(f.path) \notin loaded_names
                                            /\ f.stat_ok)
    IN  [i \in 1..Len(kept) |->
            [name |-> ModuleNameOfFile(kept[i].path),
             file_path |-> kept[i].path,
             size |-> kept[i].size,
             description |->
                 IF formatter
                 THEN HTMLFormatter_get_module_description_from_file(h, kept[i].path)
                 ELSE get_module_description_from_file(h, kept[i].path)]]

\* The two loops: the files of both patterns that are not loaded, one entry
\* each. `formatter` tells HTMLFormatter._get_unloaded_modules from the
\* script's get_unloaded_modules, which differ in the description only.
ScanEntries(h, loaded_names, formatter) ==
    LET found == Glob(h, s_ko) \o Glob(h, s_ko_zst)
        kept == SelectSeq(found, LAMBDA f : ModuleNameOfFile(f.path) \notin loaded_names)
    IN  [i \in 1..Len(kept) |->
            [name |-> ModuleNameOfFile(kept[i].path),
             file_path |-> kept[i].path,
             size |-> IF kept[i].stat_ok THEN kept[i].size ELSE 0,
             description |->
                 IF formatter
                 THEN HTMLFormatter_get_module_description_from_file(h, kept[i].path)
                 ELSE get_module_description_from_file(h, kept[i].path)]]

get_unloaded_modules(h, loaded_modules) ==
    IF ~h.modules_dir.exists THEN <<>>
    ELSE SortByName(ScanEntries(h, {loaded_modules[i].name : i \in 1..Len(loaded_modules)},
                                FALSE))

HTMLFormatter_get_unloaded_modules(h, loaded_modules) ==
    IF ~h.modules_dir.exists THEN <<>>
    ELSE SortByName(ScanEntries(h, {loaded_modules[i].name : i \in 1..Len(loaded_modules)},
                                TRUE))

-----------------------------------------------------------------------------
\* filter_modules and sort_modules; ModuleFilter.filter_modules and
\* ModuleSorter.sort_modules of kernel_modules/filters.py are the same text.

\* An optional argument: None, or the value given.
None == <<>>
Some(x) == <<x>>

\* `if name_pattern`, `if status`: None and "" are both false.
Truthy(opt) == opt # None /\ opt[1] # <<>>

\* fnmatch.fnmatch on a POSIX host (normcase changes nothing): "*" is any
\* run of characters, "?" any one character, every other character itself.
\* Patterns with "[" are not drawn.
RECURSIVE FnMatch(_, _)
FnMatch(name, pat) ==
    IF pat = <<>> THEN name = <<>>
    ELSE IF Head(pat) = "*"
    THEN FnMatch(name, Tail(pat)) \/ (name # <<>> /\ FnMatch(Tail(name), pat))
    ELSE IF name = <<>> THEN FALSE
    ELSE (Head(pat) = "?" \/ Head(pat) = Head(name)) /\ FnMatch(Tail(name), Tail(pat))

\* A plausible slip: the size, refcount and status arguments drop every
\* record that has no such field.
filter_modules_loaded_only(modules, name_pattern, min_size, max_size, min_refs, status) ==
    SelectSeq(modules,
        LAMBDA module :
            /\ ~(Truthy(name_pattern) /\ ~FnMatch(module.name, name_pattern[1]))
            /\ module.type # "KernelModule" =>
                  min_size = None /\ max_size = None /\ min_refs = None /\ ~Truthy(status)
            /\ module.type = "KernelModule" =>
                  /\ ~(min_size # None /\ module.size < min_size[1])
                  /\ ~(max_size # None /\ module.size > max_size[1])
                  /\ ~(min_refs # None /\ module.ref_count < min_refs[1])
                  /\ ~(Truthy(status) /\ module.status # status[1]))

\* A plausible slip: the loop starts at the second record.
filter_modules_skip_first(modules, name_pattern, min_size, max_size, min_refs, status) ==
    SelectSeq(IF modules = <<>> THEN <<>> ELSE Tail(modules),
        LAMBDA module :
            /\ ~(Truthy(name_pattern) /\ ~FnMatch(module.name, name_pattern[1]))
            /\ module.type = "KernelModule" =>
                  /\ ~(min_size # None /\ module.size < min_size[1])
                  /\ ~(max_size # None /\ module.size > max_size[1])
                  /\ ~(min_refs # None /\ module.ref_count < min_refs[1])
                  /\ ~(Truthy(status) /\ module.status # status[1]))

\* filter_modules: the records no `continue` skips, in their order.
filter_modules(modules, name_pattern, min_size, max_size, min_refs, status) ==
    SelectSeq(modules,
        LAMBDA module :
            /\ ~(Truthy(name_pattern) /\ ~FnMatch(module.name, name_pattern[1]))
            /\ module.type = "KernelModule" =>
                  /\ ~(min_size # None /\ module.size < min_size[1])
                  /\ ~(max_size # None /\ module.size > max_size[1])
                  /\ ~(min_refs # None /\ module.ref_count < min_refs[1])
                  /\ ~(Truthy(status) /\ module.status # status[1]))

\* A plausible slip: the name key is not lowered.
sort_key_case_sensitive(module, sort_by) ==
    IF sort_by = "name" THEN [t |-> "str", v |-> module.name]
    ELSE IF sort_by = "size" /\ module.type = "KernelModule"
    THEN [t |-> "int", v |-> module.size]
    ELSE IF sort_by = "refs" /\ module.type = "KernelModule"
    THEN [t |-> "int", v |-> module.ref_count]
    ELSE IF sort_by = "status" /\ module.type = "KernelModule"
    THEN [t |-> "str", v |-> module.status]
    ELSE [t |-> "str", v |-> module.name]

\* sort_key: the key and its Python type.
sort_key(module, sort_by) ==
    IF sort_by = "name" THEN [t |-> "str", v |-> Lower(module.name)]
    ELSE IF sort_by = "size" /\ module.type = "KernelModule"
    THEN [t |-> "int", v |-> module.size]
    ELSE IF sort_by = "refs" /\ module.type = "KernelModule"
    THEN [t |-> "int", v |-> module.ref_count]
    ELSE IF sort_by = "status" /\ module.type = "KernelModule"
    THEN [t |-> "str", v |-> module.status]
    ELSE [t |-> "str", v |-> Lower(module.name)]

\* a < b for two keys of one type
KeyLess(a, b) == IF a.t = "int" THEN a.v < b.v ELSE StrLess(a.v, b.v)

Reverse(xs) == [i \in 1..Len(xs) |-> xs[Len(xs) + 1 - i]]

\* A stable ascending sort of (key, item) pairs: each pair goes after the
\* pairs already placed whose key is not greater.
RECURSIVE InsertByKey(_, _)
InsertByKey(sorted, x) ==
    IF sorted = <<>> THEN <<x>>
    ELSE IF KeyLess(x.key, sorted[Len(sorted)].key)
    THEN Append(InsertByKey(SubSeq(sorted, 1, Len(sorted) - 1), x), sorted[Len(sorted)])
    ELSE Append(sorted, x)

RECURSIVE StableSort(_)
StableSort(xs) ==
    IF xs = <<>> THEN <<>>
    ELSE InsertByKey(StableSort(SubSeq(xs, 1, Len(xs) - 1)), xs[Len(xs)])

\* A plausible slip: reverse=True turns the ascending result around.
sort_modules_reverse_after(modules, sort_by, reverse) ==
    LET keyed == [i \in 1..Len(modules) |->
                     [key |-> sort_key(modules[i], sort_by), item |-> modules[i]]]
        types == {keyed[i].key.t : i \in 1..Len(keyed)}
        out == IF reverse THEN Reverse(StableSort(keyed)) ELSE StableSort(keyed)
    IN  IF Cardinality(types) > 1 THEN [raised |-> "TypeError", value |-> <<>>]
        ELSE [raised |-> "", value |-> [i \in 1..Len(out) |-> out[i].item]]

\* sorted(modules, key=sort_key, reverse=reverse). Keys of two types (an int
\* and a str) cannot be compared: TypeError. With reverse the list is turned
\* around, sorted, and turned around again, which keeps equal keys in input
\* order.
sort_modules(modules, sort_by, reverse) ==
    LET keyed == [i \in 1..Len(modules) |->
                     [key |-> sort_key(modules[i], sort_by), item |-> modules[i]]]
        types == {keyed[i].key.t : i \in 1..Len(keyed)}
        out == IF reverse THEN Reverse(StableSort(Reverse(keyed))) ELSE StableSort(keyed)
    IN  IF Cardinality(types) > 1 THEN [raised |-> "TypeError", value |-> <<>>]
        ELSE [raised |-> "", value |-> [i \in 1..Len(out) |-> out[i].item]]

-----------------------------------------------------------------------------
\* Fixtures: the hosts the runs start from.

p_ext4 == <<"/">> \o s_ext4 \o s_ko
p_usb == <<"/">> \o s_usb \o s_ko_zst

s_fs == <<"f", "s">>
s_GPL == <<"G", "P", "L">>
s_x == <<"x">>

\* A host with modinfo installed, module files for ext4 and usb, and no
\* source of builtin modules; each specification varies the part it is about.
BaseHost ==
    [proc_open |-> "ok",
     proc_modules |-> <<>>,
     modinfo_cmd |-> "ok",
     modinfo_n |-> (s_ext4 :> (p_ext4 \o <<"\n">>)) @@ (s_usb :> (p_usb \o <<"\n">>)),
     elf_tools |-> TRUE,
     elf_description |-> (p_ext4 :> s_fs),
     modinfo_F |-> (s_usb :> <<"b", "u", "s", "\n">>),
     file_signed |-> (p_ext4 :> "True"),
     modules_builtin |-> [exists |-> FALSE, lines |-> <<>>],
     kernel_config |-> <<>>,
     modinfo_a |-> [outcome |-> "CalledProcessError", stdout |-> <<>>],
     builtin_modinfo |-> [exists |-> FALSE, tokens |-> <<>>],
     source_tree |-> <<>>,
     kallsyms |-> <<>>,
     modules_dir |-> [exists |-> FALSE, files |-> <<>>]]

\* Lines of /proc/modules: well-formed ones, a seventh field, blank and short
\* lines, odd spacing, and size or refcount fields int() refuses or accepts.
ProcLines ==
    {MkLine(<<s_ext4, <<"1", "2">>, <<"0">>, s_dash, s_Live, s_addr>>),
     MkLine(<<s_usb, <<"7">>, <<"1">>, s_ext4, s_Live, s_addr>>),
     MkLine(<<s_snd, <<"0">>, <<"2">>, s_usb \o <<",", "[", "p", "]", ",">>, s_Dead, s_addr,
              <<"(", "O", ")">>>>),
     <<" ", "\t">> \o Join(<<s_usb, <<"7">>, <<"1">>, s_dash, s_Live, s_addr>>, <<" ", " ">>)
         \o <<"\n">>,
     <<"\n">>,
     MkLine(<<s_usb, <<"7">>, <<"1">>>>),
     MkLine(<<s_snd, <<"x">>, <<"y">>, s_dash, s_Live>>),
     MkLine(<<s_snd, <<"1", "x">>, <<"0">>, s_dash, s_Live, s_addr>>),
     MkLine(<<s_snd, <<"5">>, <<"-">>, s_dash, s_Live, s_addr>>),
     MkLine(<<s_ext4, <<"0", "7">>, <<"+", "1">>, s_usb \o <<",">> \o s_usb, s_Dead, s_addr>>),
     MkLine(<<s_usb, <<"1", "_", "0">>, <<"-", "3">>, s_dash, s_Live, s_addr>>),
     MkLine(<<s_usb, <<"1", "_">>, <<"3">>, s_dash, s_Live, s_addr>>)}

\* open('/proc/modules') succeeds, or raises FileNotFoundError or
\* PermissionError; what the file holds is then never read.
OpenOutcomes == {"ok", "FileNotFoundError", "PermissionError"}

ParseHosts ==
    {[BaseHost EXCEPT !.proc_modules = ls, !.modinfo_cmd = m] :
        ls \in SeqsUpTo(ProcLines, MaxLines),
        m \in {"ok", "FileNotFoundError", "PermissionError"}}
    \cup
    {[BaseHost EXCEPT !.proc_open = o, !.proc_modules = ls] :
        o \in OpenOutcomes \ {"ok"}, ls \in SeqsUpTo(ProcLines, 1)}

DepAlphabet == {"a", "b", ",", "[", "-"}

s_a_permanent_b ==
    <<"a", ",", "[", "p", "e", "r", "m", "a", "n", "e", "n", "t", "]", ",", "b">>

\* Dependency fields: a field of line.split() is not empty and has no blank.
DepFields == UNION {[1..k -> DepAlphabet] : k \in 1..MaxFieldLen} \cup {s_a_permanent_b}

\* main's options when none is given on the command line: argparse leaves
\* --filter, --min-size, --max-size, --min-refs and --status at None, --sort
\* at 'name' and --reverse at False.
DefaultArgs ==
    [filter |-> None, min_size |-> None, max_size |-> None, min_refs |-> None,
     status |-> None, sort |-> "name", reverse |-> FALSE]

Idle ==
    /\ loadable_modules = <<>>
    /\ builtin_modules = <<>>
    /\ unloaded_modules = <<>>
    /\ all_modules = <<>>
    /\ exit_status = [code |-> 0, msg |-> ""]
    /\ ret = <<>>

-----------------------------------------------------------------------------
\* The dependency field alone.

InitDeps ==
    /\ host = BaseHost
    /\ pc = "call"
    /\ call \in {[fn |-> "parse_dependencies", deps_str |-> d] : d \in DepFields}
    /\ args = DefaultArgs
    /\ Idle

CallParseDependencies ==
    /\ pc = "call"
    /\ call.fn = "parse_dependencies"
    /\ ret' = ParseDependencies(call.deps_str)
    /\ pc' = "returned"
    /\ UNCHANGED <<args, all_modules, host, loadable_modules, builtin_modules, unloaded_modules,
                   exit_status, call>>

NextDeps == CallParseDependencies

SpecDeps == InitDeps /\ [][NextDeps]_vars

-----------------------------------------------------------------------------
\* filter_modules and sort_modules alone.

MaxModules == 2

r_A == KernelModule(<<"A">>, 1024, 0, <<>>, s_Live, s_addr, "loadable", <<>>, <<>>, "Unknown")
r_B == KernelModule(<<"B">>, 2048, 1, <<(<<"A">>)>>, s_Live, s_addr, "loadable", <<>>, <<>>, "Unknown")
r_b == KernelModule(<<"b">>, 1024, 1, <<>>, s_Dead, s_addr, "loadable", <<>>, <<>>, "Unknown")
r_ab == KernelModule(<<"a", "b">>, 4096, 0, <<>>, s_Dead, s_addr, "loadable", <<>>, <<>>, "Unknown")
r_C == BuiltinModule(<<"C">>, <<>>, <<>>, <<>>, <<>>)
r_a == BuiltinModule(<<"a">>, s_x, <<>>, <<>>, s_GPL)

\* Loaded and builtin records: names that differ by case only, sizes, refcounts
\* and statuses that repeat.
ModuleRecords == {r_A, r_B, r_b, r_ab, r_C, r_a}

FilterCalls ==
    {[fn |-> "filter_modules", modules |-> ms, name_pattern |-> np, min_size |-> lo,
      max_size |-> hi, min_refs |-> mr, status |-> st] :
        ms \in SeqsUpTo(ModuleRecords, MaxModules),
        np \in {None, Some(<<>>), Some(<<"*", "b">>), Some(<<"?">>), Some(<<"A">>)},
        lo \in {None, Some(0), Some(2000)},
        hi \in {None, Some(1024)},
        mr \in {None, Some(1)},
        st \in {None, Some(s_Live)}}

SortFields == {"name", "size", "refs", "status", "address"}

SortCalls ==
    {[fn |-> "sort_modules", modules |-> ms, sort_by |-> f, reverse |-> r] :
        ms \in SeqsUpTo(ModuleRecords, MaxModules + 1),
        f \in SortFields,
        r \in BOOLEAN}

InitFilter ==
    /\ host = BaseHost
    /\ pc = "call"
    /\ call \in FilterCalls \cup SortCalls
    /\ args = DefaultArgs
    /\ Idle

CallFilterModules ==
    /\ pc = "call"
    /\ call.fn = "filter_modules"
    /\ ret' = filter_modules(call.modules, call.name_pattern, call.min_size,
                             call.max_size, call.min_refs, call.status)
    /\ pc' = "returned"
    /\ UNCHANGED <<args, all_modules, host, loadable_modules, builtin_modules, unloaded_modules,
                   exit_status, call>>

\* The same filter applied to what it returned; ret keeps both results.
CallFilterModulesAgain ==
    /\ pc = "returned"
    /\ call.fn = "filter_modules"
    /\ ret' = [once |-> ret,
               twice |-> filter_modules(ret, call.name_pattern, call.min_size,
                                        call.max_size, call.min_refs, call.status)]
    /\ pc' = "returned twice"
    /\ UNCHANGED <<args, all_modules, host, loadable_modules, builtin_modules, unloaded_modules,
                   exit_status, call>>

CallSortModules ==
    /\ pc = "call"
    /\ call.fn = "sort_modules"
    /\ ret' = sort_modules(call.modules, call.sort_by, call.reverse)
    /\ pc' = "returned"
    /\ UNCHANGED <<args, all_modules, host, loadable_modules, builtin_modules, unloaded_modules,
                   exit_status, call>>

NextFilter == CallFilterModules \/ CallFilterModulesAgain \/ CallSortModules

SpecFilter == InitFilter /\ [][NextFilter]_vars

-----------------------------------------------------------------------------
\* The scan of the module directory alone, by the script and by the package.

MaxFiles == 3

\* Files of /lib/modules/<release>: plain and compressed modules, one name in
\* both forms, a name in upper case, a file whose stat fails, a file that is
\* no module, a module with a description.
ScanFiles ==
    {[path |-> p_usb, stat_ok |-> FALSE, size |-> 0],
     [path |-> <<"/", "m", "/">> \o s_usb \o s_ko, stat_ok |-> TRUE, size |-> 3],
     [path |-> p_ext4, stat_ok |-> TRUE, size |-> 5],
     [path |-> <<"/", "m", "/">> \o s_snd \o s_ko_zst, stat_ok |-> TRUE, size |-> 9],
     [path |-> <<"/", "B">> \o s_ko, stat_ok |-> TRUE, size |-> 7],
     [path |-> <<"/", "m", "/", "R", "E", "A", "D", "M", "E">>, stat_ok |-> TRUE, size |-> 1]}

\* A directory holds a path once.
ScanDirs ==
    {[exists |-> e, files |-> fs] :
        e \in BOOLEAN,
        fs \in {f \in SeqsUpTo(ScanFiles, MaxFiles) :
                   \A i, j \in 1..Len(f) : i # j => f[i].path # f[j].path}}

LoadedLists ==
    {<<>>, <<r_A>>,
     <<KernelModule(s_usb, 7, 1, <<>>, s_Live, s_addr, "loadable", p_usb, <<>>, "Unknown")>>,
     <<KernelModule(s_ext4, 12, 0, <<>>, s_Live, s_addr, "loadable", p_ext4, s_fs, "Yes"),
       KernelModule(s_usb, 7, 1, <<>>, s_Live, s_addr, "loadable", p_usb, <<>>, "Unknown")>>}

InitScan ==
    /\ host \in {[BaseHost EXCEPT !.modules_dir = d] : d \in ScanDirs}
    /\ pc = "call"
    /\ call \in {[fn |-> "get_unloaded_modules", loaded_modules |-> l] : l \in LoadedLists}
    /\ args = DefaultArgs
    /\ Idle

CallGetUnloadedModules ==
    /\ pc = "call"
    /\ call.fn = "get_unloaded_modules"
    /\ ret' = get_unloaded_modules(host, call.loaded_modules)
    /\ pc' = "returned"
    /\ UNCHANGED <<args, all_modules, host, loadable_modules, builtin_modules,
                   unloaded_modules, exit_status, call>>

CallFormatterGetUnloadedModules ==
    /\ pc = "call"
    /\ call.fn = "get_unloaded_modules"
    /\ ret' = HTMLFormatter_get_unloaded_modules(host, call.loaded_modules)
    /\ call' = [call EXCEPT !.fn = "HTMLFormatter._get_unloaded_modules"]
    /\ pc' = "returned"
    /\ UNCHANGED <<args, all_modules, host, loadable_modules, builtin_modules,
                   unloaded_modules, exit_status>>

NextScan == CallGetUnloadedModules \/ CallFormatterGetUnloadedModules

SpecScan == InitScan /\ [][NextScan]_vars

-----------------------------------------------------------------------------
\* The loaded-module listing alone, by the script and by the package.

InitParse ==
    /\ host \in ParseHosts
    /\ pc = "start"
    /\ call = [fn |-> "main"]
    /\ args = DefaultArgs
    /\ Idle

\* main: loadable_modules = parse_proc_modules()
RunParseProcModules ==
    /\ pc = "start"
    /\ call.fn = "main"
    /\ LET r == parse_proc_modules(host)
       IN  /\ loadable_modules' = r.modules
           /\ exit_status' = r.exit
           /\ pc' = IF r.exit.code = 0 THEN "parsed" ELSE "exit"
    /\ UNCHANGED <<args, all_modules, host, builtin_modules, unloaded_modules, call, ret>>

\* example_usage: ModuleParser.parse_proc_modules()
CallPkgParseProcModules ==
    /\ pc = "start"
    /\ call.fn = "main"
    /\ call' = [fn |-> "ModuleParser.parse_proc_modules"]
    /\ ret' = ModuleParser_parse_proc_modules(host)
    /\ pc' = "returned"
    /\ UNCHANGED <<args, all_modules, host, loadable_modules, builtin_modules, unloaded_modules,
                   exit_status>>

NextParse == RunParseProcModules \/ CallPkgParseProcModules

SpecParse == InitParse /\ [][NextParse]_vars

-----------------------------------------------------------------------------
\* One inventory run: main of list_kernel_modules.py with the html option
\* and no filter option, and the package's builtin reconciliation on the
\* same host.

InvProcLines ==
    {MkLine(<<s_ext4, <<"1", "2">>, <<"0">>, s_dash, s_Live, s_addr>>),
     MkLine(<<s_usb, <<"7">>, <<"1">>, s_ext4, s_Live, s_addr>>),
     MkLine(<<s_snd, <<"0">>>>)}

InvModulesBuiltin ==
    {[exists |-> FALSE, lines |-> <<>>],
     [exists |-> TRUE, lines |-> <<(<<"\n">>)>>],
     [exists |-> TRUE,
      lines |-> <<<<"k", "/", "f", "s", "/">> \o s_ext4 \o s_ko \o <<"\n">>>>],
     [exists |-> TRUE,
      lines |-> <<<<"k", "/">> \o s_usb \o s_ko \o <<"\n">>, s_snd \o s_ko \o <<"\n">>>>]}

InvKernelConfig ==
    {<<>>,
     <<s_CONFIG_ \o <<"E", "X", "T", "4">> \o s__BUILTIN_y>>,
     <<s_CONFIG_ \o <<"S", "N", "D">> \o s__BUILTIN_y,
       s_CONFIG_ \o <<"U", "_", "S", "B">> \o s__BUILTIN_y,
       <<"#", " ">> \o s_CONFIG_ \o <<"X", "_">> \o s_BUILTIN \o <<"=", "m">>>>}

\* modinfo -a: failing, or printing blocks of "key: value" lines.
InvModinfoA ==
    {[outcome |-> "CalledProcessError", stdout |-> <<>>],
     [outcome |-> "ok",
      stdout |-> Join(<<s_filename_colon \o <<" ">> \o s_snd,
                        s_description \o <<":", " ">> \o s_x,
                        s_filename_colon \o <<" ">> \o s_builtin_sentinel,
                        <<>>>>, <<"\n">>)],
     [outcome |-> "ok",
      stdout |-> Join(<<s_filename_colon \o <<" ">> \o s_usb,
                        s_license \o <<":", " ">> \o s_GPL,
                        s_filename_colon \o <<" ">> \o s_builtin_sentinel,
                        s_filename_colon \o <<" ">> \o p_ext4,
                        s_author \o <<":", " ">> \o s_x>>, <<"\n">>)]}

\* modules.builtin.modinfo, the source tree and /proc/kallsyms together.
InvMetadata ==
    {[builtin_modinfo |-> [exists |-> FALSE, tokens |-> <<>>],
      source_tree |-> <<>>,
      kallsyms |-> <<>>],
     [builtin_modinfo |->
          [exists |-> TRUE,
           tokens |-> <<[module |-> s_ext4, field |-> s_license, value |-> s_GPL],
                        [module |-> s_usb, field |-> s_author, value |-> s_x],
                        [module |-> s_ext4, field |-> s_description, value |-> s_fs]>>],
      source_tree |-> <<[name |-> s_snd \o s_dot_c, description |-> s_x, license |-> <<>>]>>,
      kallsyms |-> <<>>],
     [builtin_modinfo |-> [exists |-> FALSE, tokens |-> <<>>],
      source_tree |-> <<[name |-> s_snd \o s_dot_c, description |-> s_x, license |-> <<>>],
                        [name |-> s_ext4 \o s_dot_c, description |-> <<>>, license |-> s_GPL]>>,
      kallsyms |-> <<<<"f", " ", "T", " ">> \o s_snd \o s_module_license \o s_gpl \o <<"\n">>>>]}

InvModulesDir ==
    {[exists |-> FALSE, files |-> <<>>],
     [exists |-> TRUE,
      files |-> <<[path |-> <<"/", "m", "/">> \o s_snd \o s_ko_zst, stat_ok |-> TRUE, size |-> 9],
                  [path |-> p_ext4, stat_ok |-> TRUE, size |-> 5]>>]}

InventoryHosts ==
    {[BaseHost EXCEPT !.proc_modules = ls,
                      !.modules_builtin = mb,
                      !.kernel_config = kc,
                      !.modinfo_a = ma,
                      !.builtin_modinfo = md.builtin_modinfo,
                      !.source_tree = md.source_tree,
                      !.kallsyms = md.kallsyms,
                      !.modules_dir = dir] :
        ls \in SeqsUpTo(InvProcLines, MaxLines),
        mb \in InvModulesBuiltin,
        kc \in InvKernelConfig,
        ma \in InvModinfoA,
        md \in InvMetadata,
        dir \in InvModulesDir}

Init ==
    /\ host \in InventoryHosts
    /\ pc = "start"
    /\ call = [fn |-> "main"]
    /\ args = DefaultArgs
    /\ Idle

\* main: builtin_modules = get_all_builtin_modules()
RunGetAllBuiltinModules ==
    /\ pc = "parsed"
    /\ \E order \in Orders(module_names(host)) :
          builtin_modules' = get_all_builtin_modules(host, order)
    /\ pc' = "builtin"
    /\ UNCHANGED <<args, all_modules, host, loadable_modules, unloaded_modules, exit_status, call, ret>>

\* `any([args.filter, args.min_size, ...])`: an option that is None, "" or 0
\* does not count.
AnyFilterOption(a) ==
    \/ Truthy(a.filter)
    \/ a.min_size # None /\ a.min_size # Some(0)
    \/ a.max_size # None /\ a.max_size # Some(0)
    \/ a.min_refs # None /\ a.min_refs # Some(0)
    \/ Truthy(a.status)

\* main with --html: the loaded and the builtin records in one list, filtered
\* when a filter option is given, then sorted. An exception of sort_modules is
\* caught by main's `except Exception`, which exits with status 1.
RunFilterSort ==
    /\ pc = "builtin"
    /\ LET combined == loadable_modules \o builtin_modules
           filtered == IF AnyFilterOption(args)
                       THEN filter_modules(combined, args.filter, args.min_size,
                                           args.max_size, args.min_refs, args.status)
                       ELSE combined
           sorted == sort_modules(filtered, args.sort, args.reverse)
       IN  IF sorted.raised # ""
           THEN /\ exit_status' = [code |-> 1, msg |-> "Unexpected error"]
                /\ pc' = "exit"
                /\ UNCHANGED all_modules
           ELSE /\ all_modules' = sorted.value
                /\ pc' = "sorted"
                /\ UNCHANGED exit_status
    /\ UNCHANGED <<args, host, loadable_modules, builtin_modules, unloaded_modules, call, ret>>

\* main: modules_to_html(filtered_loadable, filtered_builtin), which calls
\* get_unloaded_modules with the loaded records it was given.
RunModulesToHtml ==
    /\ pc = "sorted"
    /\ LET filtered_loadable == SelectSeq(all_modules, LAMBDA m : m.type = "KernelModule")
       IN  unloaded_modules' = get_unloaded_modules(host, filtered_loadable)
    /\ pc' = "done"
    /\ UNCHANGED <<args, all_modules, host, loadable_modules, builtin_modules, exit_status, call, ret>>

\* example_usage: BuiltinModuleParser.get_all_builtin_modules()
CallPkgGetAllBuiltinModules ==
    /\ pc = "start"
    /\ call.fn = "main"
    /\ call' = [fn |-> "BuiltinModuleParser.get_all_builtin_modules"]
    /\ \E order \in Orders(pkg_module_names(host)) :
          ret' = pkg_get_all_builtin_modules(host, order)
    /\ pc' = "returned"
    /\ UNCHANGED <<args, all_modules, host, loadable_modules, builtin_modules, unloaded_modules,
                   exit_status>>

Next ==
    \/ RunParseProcModules
    \/ RunGetAllBuiltinModules
    \/ RunFilterSort
    \/ RunModulesToHtml
    \/ CallPkgGetAllBuiltinModules

Spec == Init /\ [][Next]_vars

-----------------------------------------------------------------------------
\* The run of main with filter and sort options, on a host with modules A and
\* B loaded, C builtin and D on disk, and on hosts near it.

s_A == <<"A">>
s_B == <<"B">>
s_C == <<"C">>
s_D == <<"D">>

line_A == MkLine(<<s_A, <<"1", "0", "2", "4">>, <<"0">>, s_dash, s_Live, s_addr>>)
line_B == MkLine(<<s_B, <<"2", "0", "4", "8">>, <<"1">>, s_A, s_Live, s_addr>>)

builtin_C == [exists |-> TRUE, lines |-> <<<<"k", "/">> \o s_C \o s_ko \o <<"\n">>>>]

file_D == [path |-> <<"/">> \o s_D \o s_ko, stat_ok |-> TRUE, size |-> 7]
file_A == [path |-> <<"/">> \o s_A \o s_ko_zst, stat_ok |-> TRUE, size |-> 3]

ScenarioHost ==
    [BaseHost EXCEPT !.proc_modules = <<line_A, line_B>>,
                     !.modules_builtin = builtin_C,
                     !.modules_dir = [exists |-> TRUE, files |-> <<file_D>>]]

PipelineHosts ==
    {[BaseHost EXCEPT !.proc_modules = ls, !.modules_builtin = mb, !.modules_dir = dir] :
        ls \in SeqsUpTo({line_A, line_B}, MaxLines),
        mb \in {[exists |-> FALSE, lines |-> <<>>], builtin_C},
        dir \in {[exists |-> FALSE, files |-> <<>>],
                 [exists |-> TRUE, files |-> <<file_D>>],
                 [exists |-> TRUE, files |-> <<file_D, file_A>>]}}

PipelineArgs ==
    {[DefaultArgs EXCEPT !.min_size = lo, !.max_size = hi, !.min_refs = mr,
                         !.sort = f, !.reverse = r] :
        lo \in {None, Some(0), Some(2000)},
        hi \in {None, Some(0), Some(1024)},
        mr \in {None, Some(1)},
        f \in {"name", "size"},
        r \in BOOLEAN}

InitPipeline ==
    /\ host \in PipelineHosts
    /\ pc = "start"
    /\ call = [fn |-> "main"]
    /\ args \in PipelineArgs
    /\ loadable_modules = <<>>
    /\ builtin_modules = <<>>
    /\ unloaded_modules = <<>>
    /\ all_modules = <<>>
    /\ exit_status = [code |-> 0, msg |-> ""]
    /\ ret = <<>>

SpecPipeline == InitPipeline /\ [][Next]_vars

-----------------------------------------------------------------------------
\* Properties of the loaded-module listing.

\* The pieces of a field between its commas, told by position: a piece starts
\* at the first character or right after a comma, and runs up to the next comma.
PieceStarts(s) == {i \in 1..Len(s) : (i = 1 \/ s[i - 1] = ",") /\ s[i] # ","}

PieceAt(s, i) ==
    LET j == CHOOSE k \in i..Len(s) :
                 /\ \A m \in i..k : s[m] # ","
                 /\ (k = Len(s) \/ s[k + 1] = ",")
    IN  SubSeq(s, i, j)

NamesOfField(s) ==
    LET starts == {i \in PieceStarts(s) : s[i] # "["}
        order == CHOOSE f \in [1..Cardinality(starts) -> starts] :
                     \A a, b \in 1..Cardinality(starts) : a < b => f[a] < f[b]
    IN  [n \in 1..Cardinality(starts) |-> PieceAt(s, order[n])]

\* C8: the dependency field "-" yields the empty sequence; any other field
\* yields its comma-separated pieces in their order, without the empty ones
\* and without those that begin with "[" (a field holds no blank, so trimming a
\* piece leaves it as it is).
C8_DependencyField ==
    (pc = "returned" /\ call.fn = "parse_dependencies") =>
        /\ call.deps_str = <<"-">> => ret = <<>>
        /\ call.deps_str # <<"-">> => ret = NamesOfField(call.deps_str)

\* "a,[permanent],b" was parsed to [a, b].
C8_Witness ==
    /\ pc = "returned"
    /\ call.fn = "parse_dependencies"
    /\ call.deps_str = s_a_permanent_b
    /\ ret = <<(<<"a">>), (<<"b">>)>>

\* What the claims call a line with at least six fields, and its fields.
FieldsOf(raw) == SplitWS(raw)

\* A base-10 integer as int(s) reads it: an optional sign, then decimal
\* digits, in which single underscores may separate digits.
Base10Literal(s) ==
    LET b == IF s # <<>> /\ s[1] \in {"+", "-"} THEN Tail(s) ELSE s
    IN  /\ \E i \in 1..Len(b) : b[i] \in Digits
        /\ \A i \in 1..Len(b) :
              \/ b[i] \in Digits
              \/ /\ b[i] = "_"
                 /\ 1 < i /\ i < Len(b)
                 /\ b[i - 1] \in Digits /\ b[i + 1] \in Digits

\* A numeric field as the kernel writes it: decimal digits, no sign, no
\* leading zero, so that printing the parsed number gives the field back.
WellFormedNumber(s) ==
    /\ s # <<>>
    /\ \A i \in 1..Len(s) : s[i] \in Digits
    /\ (Len(s) > 1 => s[1] # "0")

RecordLines(lines) == SelectSeq(lines, LAMBDA raw : Len(FieldsOf(raw)) >= 6)

MalformedLine(raw) ==
    /\ Len(FieldsOf(raw)) >= 6
    /\ ~Base10Literal(FieldsOf(raw)[2]) \/ ~Base10Literal(FieldsOf(raw)[3])

\* C7: for a listing whose numeric fields are well-formed, the listing is
\* returned with exactly one record per line of at least six fields, in line
\* order, carrying fields 1, 2, 3, 5 and 6 of its line.
C7_OneRecordPerLine ==
    LET lines == RecordLines(host.proc_modules)
    IN  (/\ pc \in {"parsed", "exit"}
         /\ host.proc_open = "ok"
         /\ \A i \in 1..Len(lines) :
               /\ WellFormedNumber(FieldsOf(lines[i])[2])
               /\ WellFormedNumber(FieldsOf(lines[i])[3]))
        => /\ pc = "parsed"
           /\ Len(loadable_modules) = Len(lines)
           /\ \A i \in 1..Len(lines) :
                 /\ loadable_modules[i].name = FieldsOf(lines[i])[1]
                 /\ PyStr(loadable_modules[i].size) = FieldsOf(lines[i])[2]
                 /\ PyStr(loadable_modules[i].ref_count) = FieldsOf(lines[i])[3]
                 /\ loadable_modules[i].status = FieldsOf(lines[i])[5]
                 /\ loadable_modules[i].address = FieldsOf(lines[i])[6]

\* C9: no returned record names a dependency twice.
C9_NoDuplicateDependency ==
    pc = "parsed" =>
        \A m \in 1..Len(loadable_modules) :
            \A i, j \in 1..Len(loadable_modules[m].dependencies) :
                i # j => loadable_modules[m].dependencies[i] # loadable_modules[m].dependencies[j]

\* C10: when some line of at least six fields has a size or refcount that is
\* no base-10 integer, the call fails and hands back no record: the script
\* exits with status 1, the package parser raises.
C10_MalformedNumberIsFatal ==
    (\E i \in 1..Len(host.proc_modules) : MalformedLine(host.proc_modules[i])) =>
        /\ pc \in {"parsed", "exit"} =>
              pc = "exit" /\ exit_status.code = 1 /\ loadable_modules = <<>>
        /\ pc = "returned" => ret.raised # "" /\ ret.modules = <<>>

\* A well-formed line came first and would have given a record; the second
\* line's number is malformed; the run ended with status 1 and no record.
C10_Witness ==
    /\ pc = "exit"
    /\ host.modinfo_cmd = "ok"
    /\ Len(host.proc_modules) = 2
    /\ ParseLine(host, host.proc_modules[1]).kind = "module"
    /\ MalformedLine(host.proc_modules[2])
    /\ exit_status.code = 1
    /\ loadable_modules = <<>>

-----------------------------------------------------------------------------
\* Properties of the catalog of one inventory run.

NameSet(records) == {records[i].name : i \in 1..Len(records)}

\* The names present in /proc/modules: the first field of each line that has one.
ProcNames(h) ==
    {FieldsOf(h.proc_modules[i])[1] :
        i \in {k \in 1..Len(h.proc_modules) : FieldsOf(h.proc_modules[k]) # <<>>}}

FallbackNames(h) == get_builtin_modules_from_config(h) \cup ModinfoNames(h)

\* C1: in the catalog of one run no name is in more than one of loaded,
\* builtin, unloaded.
C1_CatalogDisjoint ==
    pc = "done" =>
        /\ NameSet(loadable_modules) \cap NameSet(builtin_modules) = {}
        /\ NameSet(loadable_modules) \cap NameSet(unloaded_modules) = {}
        /\ NameSet(builtin_modules) \cap NameSet(unloaded_modules) = {}

\* C2: a name that the loaded listing and a builtin source both report,
\* modules.builtin included, is not in the builtin result.
C2_LoadedOverBuiltin ==
    pc \in {"builtin", "sorted", "done"} =>
        \A n \in NameSet(loadable_modules) :
            n \in get_builtin_modules_from_modules_builtin(host) \cup FallbackNames(host)
                => n \notin NameSet(builtin_modules)

\* C3: a module file whose name is in the builtin set of the run has no
\* record in the unloaded result.
C3_UnloadedExcludesBuiltin ==
    pc = "done" =>
        \A i \in 1..Len(host.modules_dir.files) :
            ModuleNameOfFile(host.modules_dir.files[i].path) \in NameSet(builtin_modules)
                => ModuleNameOfFile(host.modules_dir.files[i].path)
                       \notin NameSet(unloaded_modules)

\* C4: when modules.builtin yields no name, the builtin names are those of
\* the config heuristic and of the modinfo enumeration minus the names present
\* in /proc/modules, and none of them is a loaded record's name.
C4_FallbackMembership ==
    get_builtin_modules_from_modules_builtin(host) = {} =>
        /\ pc \in {"builtin", "sorted", "done"} =>
              /\ NameSet(builtin_modules) = FallbackNames(host) \ ProcNames(host)
              /\ NameSet(builtin_modules) \cap NameSet(loadable_modules) = {}
        /\ (pc = "returned" /\ call.fn = "BuiltinModuleParser.get_all_builtin_modules") =>
              NameSet(ret) = FallbackNames(host) \ ProcNames(host)

\* modules.builtin gave nothing, a fallback name is loaded and was withheld,
\* another fallback name was returned.
C4_Witness ==
    /\ pc = "builtin"
    /\ get_builtin_modules_from_modules_builtin(host) = {}
    /\ FallbackNames(host) \cap NameSet(loadable_modules) # {}
    /\ NameSet(builtin_modules) # {}
    /\ NameSet(builtin_modules) \cap NameSet(loadable_modules) = {}

\* C5: when modules.builtin yields a name, the builtin names are exactly the
\* names it yields: a name that only the config heuristic or only the modinfo
\* enumeration reports is not added.
C5_AuthoritativeMembership ==
    get_builtin_modules_from_modules_builtin(host) # {} =>
        /\ pc \in {"builtin", "sorted", "done"} =>
              NameSet(builtin_modules) = get_builtin_modules_from_modules_builtin(host)
        /\ (pc = "returned" /\ call.fn = "BuiltinModuleParser.get_all_builtin_modules") =>
              NameSet(ret) = get_builtin_modules_from_modules_builtin(host)

\* modules.builtin gave names, a fallback source reports a name that is not
\* among them and not loaded, and the result has the names of modules.builtin.
C5_Witness ==
    /\ pc = "builtin"
    /\ get_builtin_modules_from_modules_builtin(host) # {}
    /\ (FallbackNames(host) \ ProcNames(host))
           \ get_builtin_modules_from_modules_builtin(host) # {}
    /\ NameSet(builtin_modules) = get_builtin_modules_from_modules_builtin(host)

\* The record the priority order gives a name: the modinfo record, else the
\* entry of modules.builtin.modinfo, else what the source tree gives, else
\* empty fields.
RecordByPriority(h, name) ==
    LET existing == ExistingModule(get_builtin_modules_from_modinfo(h), name)
        modinfo_metadata == extract_from_modules_builtin_modinfo(h)
    IN  IF existing # <<>> THEN existing[1]
        ELSE IF name \in DOMAIN modinfo_metadata
        THEN BuiltinModule(name, Get(modinfo_metadata[name], s_description),
                           Get(modinfo_metadata[name], s_version),
                           Get(modinfo_metadata[name], s_author),
                           Get(modinfo_metadata[name], s_license))
        ELSE BuiltinModule(name, extract_description_from_kernel_source(h, name), <<>>, <<>>,
                           extract_license_from_kernel_source(h, name))

\* C6: the metadata of every returned builtin record comes from the first
\* source that has the name, in the order modinfo record, modules.builtin.modinfo,
\* source tree, empty defaults.
C6_MetadataPriority ==
    pc \in {"builtin", "sorted", "done"} =>
        \A i \in 1..Len(builtin_modules) :
            builtin_modules[i] = RecordByPriority(host, builtin_modules[i].name)

-----------------------------------------------------------------------------
\* Properties of the failures of the loaded-module listing.

\* Why the listing of host h fails, by what happens to /proc/modules itself.
FailureCause(h) ==
    IF h.proc_open = "FileNotFoundError" THEN "SourceUnavailable"
    ELSE IF h.proc_open = "PermissionError" THEN "AccessDenied"
    ELSE "other"

\* C11: the listing fails as SourceUnavailable exactly when /proc/modules
\* cannot be opened and as AccessDenied exactly when reading it is refused;
\* both end the run, and the code handed to the caller tells the two from
\* each other and from every other outcome: a run of the same host with
\* another outcome of open() and the same code has the same cause.
C11_DistinctFailureCodes ==
    /\ pc \in {"parsed", "exit"} =>
          /\ host.proc_open # "ok" => pc = "exit" /\ loadable_modules = <<>>
          /\ \A o \in OpenOutcomes :
                LET other == [host EXCEPT !.proc_open = o]
                IN  parse_proc_modules(other).exit.code = exit_status.code
                        => FailureCause(other) = FailureCause(host)
    /\ (pc = "returned" /\ call.fn = "ModuleParser.parse_proc_modules") =>
          /\ ret.raised = "FileNotFoundError" <=> host.proc_open = "FileNotFoundError"
          /\ ret.raised = "PermissionError" <=> host.proc_open = "PermissionError"

\* C12: however the enrichment of a module fails, the listing is returned
\* with one record per line of at least six fields, and the fields the
\* enrichment could not give are "" or "Unknown".
C12_EnrichmentNeverAborts ==
    LET lines == RecordLines(host.proc_modules)
    IN  (/\ pc \in {"parsed", "exit"}
         /\ host.proc_open = "ok"
         /\ \A i \in 1..Len(host.proc_modules) : ~MalformedLine(host.proc_modules[i]))
        => /\ pc = "parsed"
           /\ exit_status.code = 0
           /\ Len(loadable_modules) = Len(lines)
           /\ host.modinfo_cmd # "ok" =>
                 \A i \in 1..Len(loadable_modules) :
                     /\ loadable_modules[i].file_path = <<>>
                     /\ loadable_modules[i].description = <<>>
                     /\ loadable_modules[i].signed = "Unknown"

-----------------------------------------------------------------------------
\* Properties of filter_modules and sort_modules.

\* An argument was supplied: a number, or a text that is not empty.
Supplied(opt) == opt # None /\ opt[1] # <<>>

\* The sub-sequence of modules at the positions that satisfy Keep, told by
\* position: the n-th kept record is the one with n - 1 kept records before it.
KeptPositions(modules, Keep(_)) == {i \in 1..Len(modules) : Keep(modules[i])}

IsSelection(out, modules, Keep(_)) ==
    LET pos == KeptPositions(modules, Keep)
    IN  /\ Len(out) = Cardinality(pos)
        /\ \A i \in pos : out[Cardinality({j \in pos : j <= i})] = modules[i]

\* C13: a record that is not a loaded one is kept if and only if its name
\* matches the pattern or no pattern is given, whatever min_size, max_size,
\* min_refs and status are; a loaded record is kept if and only if every
\* supplied predicate holds for it.
C13_FilterAsymmetry ==
    (pc = "returned" /\ call.fn = "filter_modules") =>
        LET NameOk(m) == Supplied(call.name_pattern) => FnMatch(m.name, call.name_pattern[1])
            Keep(m) ==
                IF m.type = "KernelModule"
                THEN /\ NameOk(m)
                     /\ call.min_size # None => m.size >= call.min_size[1]
                     /\ call.max_size # None => m.size <= call.max_size[1]
                     /\ call.min_refs # None => m.ref_count >= call.min_refs[1]
                     /\ Supplied(call.status) => m.status = call.status[1]
                ELSE NameOk(m)
        IN  IsSelection(ret, call.modules, Keep)

\* A builtin record went through a filter that has min_size, max_size, min_refs
\* and status and that dropped a loaded record.
C13_Witness ==
    /\ pc = "returned"
    /\ call.fn = "filter_modules"
    /\ call.min_size # None /\ call.max_size # None
    /\ call.min_refs # None /\ call.status # None
    /\ \E i \in 1..Len(call.modules) : call.modules[i].type = "KernelModule"
    /\ ret = <<r_C>>

\* C14: filtering the result of a filter with the same arguments gives the
\* same records in the same order.
C14_FilterIdempotent ==
    (pc = "returned twice" /\ call.fn = "filter_modules") => ret.twice = ret.once

\* The filter dropped a record and kept one, and was applied again.
C14_Witness ==
    /\ pc = "returned twice"
    /\ call.fn = "filter_modules"
    /\ ret.once # <<>>
    /\ Len(ret.once) < Len(call.modules)
    /\ ret.twice = ret.once

\* How often x occurs in xs.
Count(xs, x) == Cardinality({i \in 1..Len(xs) : xs[i] = x})

IsPermutation(out, modules) ==
    /\ Len(out) = Len(modules)
    /\ \A i \in 1..Len(modules) : Count(out, modules[i]) = Count(modules, modules[i])

Loaded(m) == m.type = "KernelModule"

\* C15: sorting by size, refs or status a list that holds loaded and
\* non-loaded records does not fail and returns a permutation of the list.
C15_MixedSortNeverFails ==
    (/\ pc = "returned"
     /\ call.fn = "sort_modules"
     /\ call.sort_by \in {"size", "refs", "status"}
     /\ \E i, j \in 1..Len(call.modules) :
           Loaded(call.modules[i]) /\ ~Loaded(call.modules[j]))
    => /\ ret.raised = ""
       /\ IsPermutation(ret.value, call.modules)

\* The key the sort is to order a record by: the lowered name for name, the
\* number for size and refs, the status text for status; a record without
\* the field, and any other field, by the lowered name.
KeyOf(m, field) ==
    IF field = "size" /\ Loaded(m) THEN m.size
    ELSE IF field = "refs" /\ Loaded(m) THEN m.ref_count
    ELSE IF field = "status" /\ Loaded(m) THEN m.status
    ELSE Lower(m.name)

\* The positions of xs that hold x or y.
Among(xs, x, y) == SelectSeq(xs, LAMBDA m : m = x \/ m = y)

\* C16: whatever the field and the direction, two records with equal keys
\* come out of sort_modules in the order they went in.
C16_SortStable ==
    (pc = "returned" /\ call.fn = "sort_modules" /\ ret.raised = "") =>
        \A i, j \in 1..Len(call.modules) :
            LET x == call.modules[i]
                y == call.modules[j]
            IN  (/\ x # y
                 /\ Loaded(x) = Loaded(y) \/ call.sort_by \notin {"size", "refs"}
                 /\ KeyOf(x, call.sort_by) = KeyOf(y, call.sort_by))
                => Among(ret.value, x, y) = Among(call.modules, x, y)

\* Sorted by status, descending: the two Live records kept their order
\* around a Dead one.
C16_Witness ==
    /\ pc = "returned"
    /\ call.fn = "sort_modules"
    /\ call.sort_by = "status"
    /\ call.reverse
    /\ call.modules = <<r_A, r_ab, r_B>>
    /\ ret.value = <<r_A, r_B, r_ab>>

\* a <= b for two keys of loaded records of one field
KeyLeq(a, b, field) ==
    IF field \in {"size", "refs"} THEN a <= b ELSE a = b \/ StrLess(a, b)

\* C17: a list of loaded records comes out as a permutation whose keys do not
\* decrease, or do not increase when reverse is set.
C17_LoadedSortOrdered ==
    (/\ pc = "returned"
     /\ call.fn = "sort_modules"
     /\ call.sort_by \in {"name", "size", "refs", "status"}
     /\ \A i \in 1..Len(call.modules) : Loaded(call.modules[i]))
    => /\ ret.raised = ""
       /\ IsPermutation(ret.value, call.modules)
       /\ \A i \in 1..(Len(ret.value) - 1) :
             LET a == KeyOf(ret.value[i], call.sort_by)
                 b == KeyOf(ret.value[i + 1], call.sort_by)
             IN  IF call.reverse THEN KeyLeq(b, a, call.sort_by)
                 ELSE KeyLeq(a, b, call.sort_by)

\* A of size 1024 and B of size 2048, by size descending: [B, A].
C17_Witness ==
    /\ pc = "returned"
    /\ call.fn = "sort_modules"
    /\ call.sort_by = "size"
    /\ call.reverse
    /\ call.modules = <<r_A, r_B>>
    /\ ret.value = <<r_B, r_A>>

-----------------------------------------------------------------------------
\* Properties of the run of main with filter options.

Names(records) == [i \in 1..Len(records) |-> records[i].name]

\* The run of the scenario: A of 1024 and B of 2048 loaded, C builtin, D.ko on
\* disk, --min-size 2000, past the filter.
ScenarioRun ==
    /\ host = ScenarioHost
    /\ args = [DefaultArgs EXCEPT !.min_size = Some(2000)]
    /\ pc \in {"sorted", "done"}

ScenarioCatalog ==
    /\ Names(loadable_modules) = <<s_A, s_B>>
    /\ loadable_modules[1].size = 1024 /\ loadable_modules[1].ref_count = 0
    /\ loadable_modules[2].size = 2048 /\ loadable_modules[2].ref_count = 1
    /\ loadable_modules[2].dependencies = <<s_A>>
    /\ Names(builtin_modules) = <<s_C>>
    /\ pc = "done" => Names(unloaded_modules) = <<s_D>>

\* C18, as stated: in the scenario the catalog is loaded {A, B}, builtin {C},
\* unloaded {D}, and the union filtered with min_size 2000 holds only B.
C18_ScenarioOnlyB ==
    ScenarioRun => ScenarioCatalog /\ Names(all_modules) = <<s_B>>

\* C18, amended: in the scenario the catalog is loaded {A, B}, builtin {C},
\* unloaded {D}, and the union filtered with min_size 2000 holds B and the
\* builtin C, which no size predicate excludes.
C18_ScenarioBAndBuiltin ==
    ScenarioRun => ScenarioCatalog /\ Names(all_modules) = <<s_B, s_C>>

\* The scenario ran to its end.
C18_Witness ==
    /\ ScenarioRun
    /\ pc = "done"
    /\ Names(all_modules) = <<s_B, s_C>>
    /\ Names(unloaded_modules) = <<s_D>>

-----------------------------------------------------------------------------
\* Properties of the scan of the module directory.

ScanReturned ==
    /\ pc = "returned"
    /\ call.fn \in {"get_unloaded_modules", "HTMLFormatter._get_unloaded_modules"}

\* The name a module file stands for: what precedes ".ko.zst" in its base
\* name, or else what precedes ".ko"; <<>> tells that the file is no module.
DerivedName(path) ==
    LET base == Basename(path)
        stem(suffix) == SubSeq(base, 1, Len(base) - Len(suffix))
    IN  IF Len(base) >= 7 /\ stem(s_ko_zst) \o s_ko_zst = base THEN <<stem(s_ko_zst)>>
        ELSE IF Len(base) >= 3 /\ stem(s_ko) \o s_ko = base THEN <<stem(s_ko)>>
        ELSE <<>>

LoadedNames == {call.loaded_modules[i].name : i \in 1..Len(call.loaded_modules)}

\* The files of the directory the scan is to report.
Reported ==
    {f \in {host.modules_dir.files[i] : i \in 1..Len(host.modules_dir.files)} :
        DerivedName(f.path) # <<>> /\ DerivedName(f.path)[1] \notin LoadedNames}

RecordsOf(f) == {i \in 1..Len(ret) : ret[i].file_path = f.path}

C20_ScanNeverFails ==
    ScanReturned =>
        /\ ~host.modules_dir.exists => ret = <<>>
        /\ host.modules_dir.exists =>
              \A f \in Reported :
                  /\ Cardinality(RecordsOf(f)) = 1
                  /\ \A i \in RecordsOf(f) :
                        /\ ret[i].size = IF f.stat_ok THEN f.size ELSE 0
                        /\ f.path \notin DOMAIN host.elf_description
                               => ret[i].description = <<>>

\* Two files were reported, the stat of one failed: size 0 for it, and the
\* other record is there with its size.
C20_Witness ==
    /\ ScanReturned
    /\ host.modules_dir.exists
    /\ Len(ret) = 2
    /\ \E i, j \in 1..2 : ret[i].file_path = p_usb /\ ret[i].size = 0 /\ ret[j].size > 0
    /\ \A i \in 1..2 : ret[i].description = <<>>

-----------------------------------------------------------------------------
\* Decompression of .ko.zst modules through a temporary file.
\*
\* The host of these functions: one module file and the directory of
\* temporary files.  readable: open(file_path, 'rb') succeeds; valid_zstd:
\* reader.read() does not raise ZstdError; tmp_writable: NamedTemporaryFile
\* can create its file; temp_files: the temporary files that exist.

TempNames == {"tmp1.ko", "tmp2.ko"}

TempHosts ==
    [zstd_available : BOOLEAN, elf_tools : BOOLEAN, tmp_writable : BOOLEAN,
     readable : BOOLEAN, valid_zstd : BOOLEAN,
     description : {<<>>, s_fs}, sig_info : BOOLEAN, sig_marker : BOOLEAN,
     temp_files : {{}}]

\* The block "with open(file_path, 'rb') ...: temp_file.write(reader.read())":
\* TRUE when it completes, FALSE when it raises (zstd is an unbound name when
\* the import of zstandard failed, open fails, or the stream is not zstd).
DecompressCompletes(h, zstd_bound) == zstd_bound /\ h.readable /\ h.valid_zstd

\* extract_from_elf_file / _extract_from_elf_file on the decompressed copy:
\* every exception is caught inside (ELFFile unbound without pyelftools).
extract_from_elf_file(h) == IF h.elf_tools THEN h.description ELSE <<>>

\* ModuleParser._extract_from_compressed_elf: os.unlink(temp_path) is the
\* statement after the extraction, inside the try; an exception raised before
\* it goes to "except Exception", which returns "" and unlinks nothing.
\* parsers.py imports zstandard unconditionally.
ModuleParser_extract_from_compressed_elf(h, file_path, temp_path) ==
    IF ~h.tmp_writable THEN [value |-> <<>>, temp_files |-> h.temp_files]
    ELSE IF ~DecompressCompletes(h, TRUE)
    THEN [value |-> <<>>, temp_files |-> h.temp_files \cup {temp_path}]
    ELSE [value |-> extract_from_elf_file(h), temp_files |-> h.temp_files]

\* extract_from_compressed_elf of the script: the same body behind the
\* ZSTD_AVAILABLE guard.
extract_from_compressed_elf(h, file_path, temp_path) ==
    IF ~h.zstd_available THEN [value |-> <<>>, temp_files |-> h.temp_files]
    ELSE IF ~h.tmp_writable THEN [value |-> <<>>, temp_files |-> h.temp_files]
    ELSE IF ~DecompressCompletes(h, TRUE)
    THEN [value |-> <<>>, temp_files |-> h.temp_files \cup {temp_path}]
    ELSE [value |-> extract_from_elf_file(h), temp_files |-> h.temp_files]

\* get_module_description_from_file of the script: no ZSTD_AVAILABLE guard,
\* and the call of extract_description_from_elf_file, a name the script does
\* not define, raises NameError before os.unlink is reached.
get_module_description_from_file_temp(h, file_path, temp_path) ==
    IF ~EndsWith(file_path, s_ko_zst) THEN [value |-> <<>>, temp_files |-> h.temp_files]
    ELSE IF ~h.tmp_writable THEN [value |-> <<>>, temp_files |-> h.temp_files]
    ELSE [value |-> <<>>, temp_files |-> h.temp_files \cup {temp_path}]

\* is_module_signed_from_file, with its temporary file: the try/finally that
\* unlinks temp_path starts after the with block of the decompression, so an
\* exception of the decompression leaves the with block (the inner finally
\* only flushes) and reaches the outer "except Exception: return None".
is_module_signed_from_file_temp(h, file_path, temp_path) ==
    LET signed == IF (h.elf_tools /\ h.sig_info) \/ h.sig_marker THEN "True" ELSE "False"
    IN  IF file_path = <<>> THEN [value |-> "None", temp_files |-> h.temp_files]
        ELSE IF ~EndsWith(file_path, s_ko_zst)
        THEN [value |-> IF h.readable THEN signed ELSE "False", temp_files |-> h.temp_files]
        ELSE IF ~h.zstd_available THEN [value |-> "None", temp_files |-> h.temp_files]
        ELSE IF ~h.tmp_writable THEN [value |-> "None", temp_files |-> h.temp_files]
        ELSE IF ~DecompressCompletes(h, TRUE)
        THEN [value |-> "None", temp_files |-> h.temp_files \cup {temp_path}]
        ELSE [value |-> signed, temp_files |-> h.temp_files]

InitTemp ==
    /\ host \in TempHosts
    /\ pc = "start"
    /\ call = [fn |-> "none"]
    /\ args = DefaultArgs
    /\ Idle

TempCall(fn, file_path, r) ==
    /\ pc = "start"
    /\ pc' = "returned"
    /\ call' = [fn |-> fn, file_path |-> file_path]
    /\ ret' = r.value
    /\ host' = [host EXCEPT !.temp_files = r.temp_files]
    /\ UNCHANGED <<loadable_modules, builtin_modules, unloaded_modules, exit_status,
                   args, all_modules>>

CallPkgExtractFromCompressedElf ==
    \E temp_path \in TempNames \ host.temp_files :
        TempCall("ModuleParser._extract_from_compressed_elf", p_usb,
                 ModuleParser_extract_from_compressed_elf(host, p_usb, temp_path))

CallExtractFromCompressedElf ==
    \E temp_path \in TempNames \ host.temp_files :
        TempCall("extract_from_compressed_elf", p_usb,
                 extract_from_compressed_elf(host, p_usb, temp_path))

CallGetModuleDescriptionFromFile ==
    \E file_path \in {p_ext4, p_usb}, temp_path \in TempNames \ host.temp_files :
        TempCall("get_module_description_from_file", file_path,
                 get_module_description_from_file_temp(host, file_path, temp_path))

CallIsModuleSignedFromFile ==
    \E file_path \in {<<>>, p_ext4, p_usb}, temp_path \in TempNames \ host.temp_files :
        TempCall("is_module_signed_from_file", file_path,
                 is_module_signed_from_file_temp(host, file_path, temp_path))

NextTemp ==
    \/ CallPkgExtractFromCompressedElf
    \/ CallExtractFromCompressedElf
    \/ CallGetModuleDescriptionFromFile
    \/ CallIsModuleSignedFromFile

SpecTemp == InitTemp /\ [][NextTemp]_vars

\* C21: every temporary file created to decompress a .ko.zst module is deleted
\* by the time the extracting function returns, on every exit path.
C21_TempFilesDeleted ==
    pc = "returned" /\ "temp_files" \in DOMAIN host => host.temp_files = {}

-----------------------------------------------------------------------------
\* Uniqueness of names within a result sequence.

UniqueNames(records) ==
    \A i, j \in 1..Len(records) : i # j => records[i].name # records[j].name

\* C22: no two records of the loaded list share a name, nor two of the builtin
\* list returned by get_all_builtin_modules, nor two of the unloaded list
\* returned by get_unloaded_modules, also when a module is on disk both as
\* X.ko and as X.ko.zst.
C22_UniqueNames ==
    /\ UniqueNames(loadable_modules)
    /\ UniqueNames(builtin_modules)
    /\ UniqueNames(unloaded_modules)
    /\ ScanReturned => UniqueNames(ret)

-----------------------------------------------------------------------------
\* get_builtin_modules_from_modinfo alone, by the script and by the package
\* (the two texts are the same).

MaxModinfoLines == 4

\* Lines of the output of modinfo -a: the builtin sentinel, a plain and a
\* compressed module file, a bare name, and two key: value lines.
ModinfoLines ==
    {s_filename_colon \o <<" ">> \o s_builtin_sentinel,
     s_filename_colon \o <<" ">> \o p_ext4,
     s_filename_colon \o <<" ">> \o p_usb,
     s_filename_colon \o <<" ">> \o s_snd,
     s_description \o <<":", " ">> \o s_x,
     s_license \o <<":", " ">> \o s_GPL}

ModinfoHosts ==
    {[BaseHost EXCEPT !.modinfo_a = [outcome |-> "ok", stdout |-> Join(ls, <<"\n">>)]] :
        ls \in SeqsUpTo(ModinfoLines, MaxModinfoLines)}

InitModinfo ==
    /\ host \in ModinfoHosts
    /\ pc = "call"
    /\ call = [fn |-> "none"]
    /\ args = DefaultArgs
    /\ Idle

CallGetBuiltinModulesFromModinfo ==
    /\ pc = "call"
    /\ ret' = get_builtin_modules_from_modinfo(host)
    /\ call' = [fn |-> "get_builtin_modules_from_modinfo"]
    /\ pc' = "returned"
    /\ UNCHANGED <<args, all_modules, host, loadable_modules, builtin_modules,
                   unloaded_modules, exit_status>>

CallPkgGetBuiltinModulesFromModinfo ==
    /\ pc = "call"
    /\ ret' = get_builtin_modules_from_modinfo(host)
    /\ call' = [fn |-> "BuiltinModuleParser.get_builtin_modules_from_modinfo"]
    /\ pc' = "returned"
    /\ UNCHANGED <<args, all_modules, host, loadable_modules, builtin_modules,
                   unloaded_modules, exit_status>>

NextModinfo == CallGetBuiltinModulesFromModinfo \/ CallPkgGetBuiltinModulesFromModinfo

SpecModinfo == InitModinfo /\ [][NextModinfo]_vars

-----------------------------------------------------------------------------
\* Properties of the modinfo enumeration parser.

ModinfoReturned ==
    /\ pc = "returned"
    /\ call.fn \in {"get_builtin_modules_from_modinfo",
                    "BuiltinModuleParser.get_builtin_modules_from_modinfo"}

OutLines == SplitOn(host.modinfo_a.stdout, "\n")

\* A record starts at each 'filename:' line and ends before the next one.
RecordStarts == {i \in 1..Len(OutLines) : StartsWith(OutLines[i], s_filename_colon)}

RecordEnd(i) ==
    IF \E j \in RecordStarts : j > i
    THEN (CHOOSE j \in RecordStarts : j > i /\ \A k \in RecordStarts : k > i => j <= k) - 1
    ELSE Len(OutLines)

FilenameOf(i) == Strip(SubSeq(OutLines[i], Len(s_filename_colon) + 1, Len(OutLines[i])))

\* The value of a key in the record that starts at line i: the last
\* 'key: value' line of the record, "" when the record has none.
FieldLines(i, key) ==
    {j \in (i + 1)..RecordEnd(i) :
        Contains(OutLines[j], <<":">>) /\ Strip(SplitOnce(OutLines[j], ":")[1]) = key}

FieldOf(i, key) ==
    IF FieldLines(i, key) = {} THEN <<>>
    ELSE LET j == CHOOSE m \in FieldLines(i, key) : \A n \in FieldLines(i, key) : n <= m
         IN  Strip(SplitOnce(OutLines[j], ":")[2])

SentinelRecords == {i \in RecordStarts : FilenameOf(i) = s_builtin_sentinel}

\* The k-th record whose filename is the sentinel.
SentinelRecord(k) ==
    CHOOSE i \in SentinelRecords : Cardinality({j \in SentinelRecords : j <= i}) = k

\* C23: the parser emits one BuiltinModule for each record whose own filename
\* is '(builtin)' and for no other record; no emitted record is named after a
\* .ko or .ko.zst file, and the fields of an emitted record are those of the
\* sentinel record itself.
C23_SentinelRecordsEmitted ==
    ModinfoReturned =>
        /\ Len(ret) = Cardinality(SentinelRecords)
        /\ \A k \in 1..Len(ret) :
              /\ ~EndsWith(ret[k].name, s_ko)
              /\ ~EndsWith(ret[k].name, s_ko_zst)
              /\ ret[k].description = FieldOf(SentinelRecord(k), s_description)
              /\ ret[k].license = FieldOf(SentinelRecord(k), s_license)

\* The values a record gives for a key.
FieldValues(i, key) == {Strip(SplitOnce(OutLines[j], ":")[2]) : j \in FieldLines(i, key)}

\* The records an emitted BuiltinModule can stand for: those whose filename
\* gives its name, and the sentinel records.
OwnRecords(module) ==
    {i \in RecordStarts :
        Basename(FilenameOf(i)) = module.name \/ FilenameOf(i) = s_builtin_sentinel}

\* C28: each emitted BuiltinModule carries only key: value pairs of its own
\* record (from its 'filename:' line to the next one); a description, version,
\* author or license of an earlier record never appears in a later one.
C28_FieldsFromOwnRecord ==
    ModinfoReturned =>
        \A k \in 1..Len(ret) :
            \E i \in OwnRecords(ret[k]) :
                /\ ret[k].description # <<>> => ret[k].description \in FieldValues(i, s_description)
                /\ ret[k].version # <<>> => ret[k].version \in FieldValues(i, s_version)
                /\ ret[k].author # <<>> => ret[k].author \in FieldValues(i, s_author)
                /\ ret[k].license # <<>> => ret[k].license \in FieldValues(i, s_license)

-----------------------------------------------------------------------------
\* _extract_from_modules_builtin_modinfo alone.

MaxTokens == 3

\* The matches of (\w+)\.(\w+)=([^\s]+) in the file: two modules, two fields,
\* two values.
ModinfoTokens ==
    [module : {s_ext4, s_usb}, field : {s_license, s_description}, value : {s_GPL, s_x}]

BuiltinModinfoHosts ==
    {[BaseHost EXCEPT !.builtin_modinfo = [exists |-> e, tokens |-> toks]] :
        e \in BOOLEAN, toks \in SeqsUpTo(ModinfoTokens, MaxTokens)}

InitBuiltinModinfo ==
    /\ host \in BuiltinModinfoHosts
    /\ pc = "call"
    /\ call = [fn |-> "none"]
    /\ args = DefaultArgs
    /\ Idle

CallExtractFromModulesBuiltinModinfo ==
    /\ pc = "call"
    /\ ret' = extract_from_modules_builtin_modinfo(host)
    /\ call' = [fn |-> "BuiltinModuleParser._extract_from_modules_builtin_modinfo"]
    /\ pc' = "returned"
    /\ UNCHANGED <<args, all_modules, host, loadable_modules, builtin_modules,
                   unloaded_modules, exit_status>>

NextBuiltinModinfo == CallExtractFromModulesBuiltinModinfo

SpecBuiltinModinfo == InitBuiltinModinfo /\ [][NextBuiltinModinfo]_vars

\* The last value the tokens give for a field of a module.
LastValue(toks, m, f) ==
    LET at == {i \in 1..Len(toks) : toks[i].module = m /\ toks[i].field = f}
    IN  toks[CHOOSE i \in at : \A j \in at : j <= i].value

\* C24: for every token (m, f, v) of modules.builtin.modinfo the parsed result
\* has result[m][f], equal to the last value given for (m, f), also when the
\* tokens of a module are not contiguous.
C24_AllFieldsOfEachModule ==
    (/\ pc = "returned"
     /\ call.fn = "BuiltinModuleParser._extract_from_modules_builtin_modinfo"
     /\ host.builtin_modinfo.exists) =>
        \A i \in 1..Len(host.builtin_modinfo.tokens) :
            LET tok == host.builtin_modinfo.tokens[i]
            IN  /\ tok.module \in DOMAIN ret
                /\ tok.field \in DOMAIN ret[tok.module]
                /\ ret[tok.module][tok.field] =
                       LastValue(host.builtin_modinfo.tokens, tok.module, tok.field)

-----------------------------------------------------------------------------
\* get_builtin_modules_from_modules_builtin alone, by the script and by the
\* package (the two texts are the same).

MaxStemLen == 3

\* Lines of modules.builtin: a path with or without a directory, whose base
\* name is made of the characters of ".ko" and one other, with or without the
\* module extension; a blank line.
BuiltinStems == UNION {[1..k -> {"a", ".", "k", "o"}] : k \in 1..MaxStemLen}

BuiltinLines ==
    {dir \o stem \o ext \o <<"\n">> :
        dir \in {<<>>, <<"k", "/">>}, stem \in BuiltinStems, ext \in {<<>>, s_ko}}
    \cup {<<"\n">>}

ModulesBuiltinHosts ==
    {[BaseHost EXCEPT !.modules_builtin = [exists |-> TRUE, lines |-> <<l>>]] :
        l \in BuiltinLines}
    \cup {[BaseHost EXCEPT !.modules_builtin = [exists |-> e, lines |-> <<>>]] : e \in BOOLEAN}

InitModulesBuiltin ==
    /\ host \in ModulesBuiltinHosts
    /\ pc = "call"
    /\ call = [fn |-> "none"]
    /\ args = DefaultArgs
    /\ Idle

CallGetBuiltinModulesFromModulesBuiltin ==
    /\ pc = "call"
    /\ ret' = get_builtin_modules_from_modules_builtin(host)
    /\ call' = [fn |-> "get_builtin_modules_from_modules_builtin"]
    /\ pc' = "returned"
    /\ UNCHANGED <<args, all_modules, host, loadable_modules, builtin_modules,
                   unloaded_modules, exit_status>>

CallPkgGetBuiltinModulesFromModulesBuiltin ==
    /\ pc = "call"
    /\ ret' = get_builtin_modules_from_modules_builtin(host)
    /\ call' = [fn |-> "BuiltinModuleParser.get_builtin_modules_from_modules_builtin"]
    /\ pc' = "returned"
    /\ UNCHANGED <<args, all_modules, host, loadable_modules, builtin_modules,
                   unloaded_modules, exit_status>>

NextModulesBuiltin ==
    CallGetBuiltinModulesFromModulesBuiltin \/ CallPkgGetBuiltinModulesFromModulesBuiltin

SpecModulesBuiltin == InitModulesBuiltin /\ [][NextModulesBuiltin]_vars

\* The base name of a path without its trailing '.ko'.
WithoutModuleExtension(path) ==
    LET base == Basename(path)
    IN  IF Len(base) >= Len(s_ko) /\ SubSeq(base, Len(base) - Len(s_ko) + 1, Len(base)) = s_ko
        THEN SubSeq(base, 1, Len(base) - Len(s_ko))
        ELSE base

\* C25: for every non-empty line of modules.builtin the derived builtin name
\* is the base name of the path with only its trailing '.ko' removed; an inner
\* '.ko' of the base name stays.
C25_TrailingExtensionOnly ==
    (/\ pc = "returned"
     /\ call.fn \in {"get_builtin_modules_from_modules_builtin",
                     "BuiltinModuleParser.get_builtin_modules_from_modules_builtin"}
     /\ host.modules_builtin.exists) =>
        ret = {WithoutModuleExtension(Strip(host.modules_builtin.lines[i])) :
                  i \in {k \in 1..Len(host.modules_builtin.lines) :
                            Strip(host.modules_builtin.lines[k]) # <<>>}}

-----------------------------------------------------------------------------
\* Properties of the run of main with filter options.

LoadedInOutput == {i \in 1..Len(all_modules) : all_modules[i].type = "KernelModule"}

\* C26: in the run of main, whenever a size or refcount bound is supplied, 0
\* included, every loaded record of the output satisfies it.
C26_SuppliedBoundsApplied ==
    pc \in {"sorted", "done"} =>
        \A i \in LoadedInOutput :
            /\ args.min_size # None => all_modules[i].size >= args.min_size[1]
            /\ args.max_size # None => all_modules[i].size <= args.max_size[1]
            /\ args.min_refs # None => all_modules[i].ref_count >= args.min_refs[1]

\* C27: in the HTML report, for every combination of filter options, no
\* module listed in /proc/modules is in the unloaded section: the scan excludes
\* the full loaded set, not only the loaded records that passed the filter.
C27_UnloadedExcludesAllLoaded ==
    pc = "done" =>
        \A i \in 1..Len(unloaded_modules), j \in 1..Len(loadable_modules) :
            unloaded_modules[i].name # loadable_modules[j].name

-----------------------------------------------------------------------------
\* Agreement of the readers of /proc/modules.

\* C29: for every content of /proc/modules the names get_loadable_module_names
\* returns are the names of the records parse_proc_modules returns for that
\* content.
C29_LoadedNamesAgree ==
    (pc = "parsed" /\ call.fn = "main") =>
        get_loadable_module_names(host) = NameSet(loadable_modules)

\* What the claim compares of a loaded record.
Compared(module) ==
    [name |-> module.name, size |-> module.size, ref_count |-> module.ref_count,
     dependencies |-> module.dependencies, status |-> module.status,
     address |-> module.address, file_path |-> module.file_path]

\* C30: on every listing and with the same enrichment results the package
\* parser and the script parser both succeed or both fail, and on success
\* they return the same sequence of records.
C30_ParsersAgree ==
    (pc = "returned" /\ call.fn = "ModuleParser.parse_proc_modules") =>
        LET script == parse_proc_modules(host)
        IN  /\ ret.raised = "" <=> script.exit.code = 0
            /\ ret.raised = "" =>
                  /\ Len(ret.modules) = Len(script.modules)
                  /\ \A i \in 1..Len(ret.modules) :
                        Compared(ret.modules[i]) = Compared(script.modules[i])

====
